---- MODULE Spec2Model ----
(***************************************************************************)
(* Quick Serve: process discovery and termination (ProcessKiller), the     *)
(* restart command's port kill, and their helpers.                         *)
(*                                                                         *)
(* Strings are sequences of one-character strings, so the regular          *)
(* expressions of the source are modelled by what they match.  A process   *)
(* id is a number.  pgrep -f is modelled as substring search over the      *)
(* command lines of the process table.                                     *)
(***************************************************************************)
EXTENDS Integers, Sequences, FiniteSets, TLC

(***************************************************************************)
(* Bounds of the model and constants of the program.                       *)
(***************************************************************************)
\* hops of the ancestor walk (getOwnPids: for i < 20)
MaxHops == 20
\* number of processes outside the tool's own ancestor chain
NExt == 2
\* depth of the ancestor chains explored (0..MaxDepth)
MaxDepth == 2
\* number of segments of the compound commands explored (1..MaxSegs)
MaxSegs == 3

None == -1
InitPid == 1

(***************************************************************************)
(* Characters and strings.                                                 *)
(***************************************************************************)
IsWs(c) == c = " "

Quotes == {"\"", "'"}

RECURSIVE TrimLeft(_)
TrimLeft(s) ==
    IF s # <<>> /\ IsWs(Head(s)) THEN TrimLeft(Tail(s)) ELSE s

RECURSIVE TrimRight(_)
TrimRight(s) ==
    IF s # <<>> /\ IsWs(s[Len(s)]) THEN TrimRight(SubSeq(s, 1, Len(s) - 1)) ELSE s

\* String.prototype.trim
Trim(s) == TrimRight(TrimLeft(s))

\* String.prototype.startsWith
StartsWith(s, prefix) ==
    /\ Len(prefix) <= Len(s)
    /\ SubSeq(s, 1, Len(prefix)) = prefix

\* the pattern occurs in the command line (pgrep -f)
Contains(hay, needle) ==
    \E i \in 1..(Len(hay) + 1) :
        /\ i + Len(needle) - 1 <= Len(hay)
        /\ SubSeq(hay, i, i + Len(needle) - 1) = needle

Reverse(s) == [i \in 1..Len(s) |-> s[Len(s) + 1 - i]]

SeqFilterNonEmpty(ss) == SelectSeq(ss, LAMBDA x : x # <<>>)

RECURSIVE JoinWith(_, _)
JoinWith(ss, sep) ==
    IF ss = <<>> THEN <<>>
    ELSE IF Len(ss) = 1 THEN ss[1]
    ELSE ss[1] \o sep \o JoinWith(Tail(ss), sep)

(***************************************************************************)
(* ProcessKiller.splitCommandSegments                                      *)
(***************************************************************************)
\* cmd.split(/\s*(?:&&|;)\s*/): the pieces between separators, left to right;
\* the white space the regular expression eats is removed by the trim below
RECURSIVE SplitPieces(_, _)
SplitPieces(s, cur) ==
    IF s = <<>> THEN <<cur>>
    ELSE IF Len(s) >= 2 /\ s[1] = "&" /\ s[2] = "&"
         THEN <<cur>> \o SplitPieces(SubSeq(s, 3, Len(s)), <<>>)
    ELSE IF s[1] = ";"
         THEN <<cur>> \o SplitPieces(Tail(s), <<>>)
    ELSE SplitPieces(Tail(s), Append(cur, s[1]))

\* .map(s => s.trim()).filter(Boolean)
SplitParts(cmd) ==
    LET raw == SplitPieces(cmd, <<>>)
    IN  SeqFilterNonEmpty([i \in 1..Len(raw) |-> Trim(raw[i])])

\* splitCommandSegments without the .reverse(): the segments as written
splitCommandSegmentsAsWritten(cmd) ==
    LET parts == SplitParts(cmd)
    IN  IF Len(parts) <= 1 THEN <<>> ELSE parts

splitCommandSegments(cmd) ==
    LET parts == SplitParts(cmd)
    IN  IF Len(parts) <= 1 THEN <<>> ELSE Reverse(parts)

(***************************************************************************)
(* ProcessKiller.parseCdPrefix                                             *)
(*   /^cd\s+("[^"]+"|'[^']+'|\S+)\s*(?:&&|;)\s*(.+)$/                      *)
(***************************************************************************)
Undef == <<"undefined">>

\* a string used as a condition: undefined and "" are falsy
Truthy(s) == s # Undef /\ s # <<>>

\* first index >= i that holds no white space (Len(s) + 1 when there is none)
SkipWs(s, i) ==
    IF \E j \in i..Len(s) : ~IsWs(s[j])
    THEN CHOOSE j \in i..Len(s) :
            /\ ~IsWs(s[j])
            /\ \A k \in i..(j - 1) : IsWs(s[k])
    ELSE Len(s) + 1

\* \s*(?:&&|;)\s*(.+)$ after a first group ending at e: the index where the
\* text after the separator begins, 0 when the rest does not match
CdRest(s, e) ==
    LET i == SkipWs(s, e + 1)
        k == IF i + 1 <= Len(s) /\ s[i] = "&" /\ s[i + 1] = "&" THEN i + 2
             ELSE IF i <= Len(s) /\ s[i] = ";" THEN i + 1
             ELSE 0
    IN  IF k # 0 /\ k <= Len(s) THEN k ELSE 0

\* "[^"]+" or '[^']+' opening at p: the index of the closing quote, 0 if none
QuotedEnd(s, p, q) ==
    IF s[p] = q /\ \E j \in (p + 1)..Len(s) : s[j] = q
    THEN LET c == CHOOSE j \in (p + 1)..Len(s) :
                      s[j] = q /\ \A k \in (p + 1)..(j - 1) : s[k] # q
         IN  IF c >= p + 2 THEN c ELSE 0
    ELSE 0

\* \S+ opening at p, greedy: the longest run after which the rest matches
BareEnd(s, p) ==
    LET ok == {e \in p..Len(s) :
                  /\ \A k \in p..e : ~IsWs(s[k])
                  /\ CdRest(s, e) # 0}
    IN  IF ok = {} THEN 0 ELSE CHOOSE e \in ok : \A f \in ok : f <= e

\* match[1].replace(/^['"]|['"]$/g, '')
StripQuotes(s) ==
    LET lead == s # <<>> /\ s[1] \in Quotes
        t    == IF lead THEN Tail(s) ELSE s
        \* the trailing quote is a character the leading match did not consume
        tr   == t # <<>> /\ t[Len(t)] \in Quotes
    IN  IF tr THEN SubSeq(t, 1, Len(t) - 1) ELSE t

parseCdPrefix(command) ==
    LET s == command
        noMatch == [cwd |-> Undef, cmd |-> command]
    IN  IF ~(Len(s) >= 4 /\ s[1] = "c" /\ s[2] = "d" /\ IsWs(s[3])) THEN noMatch
        ELSE
        LET p == SkipWs(s, 3)
        IN  IF p > Len(s) THEN noMatch
            ELSE
            LET dq == QuotedEnd(s, p, "\"")
                sq == QuotedEnd(s, p, "'")
                e  == IF dq # 0 /\ CdRest(s, dq) # 0 THEN dq
                      ELSE IF sq # 0 /\ CdRest(s, sq) # 0 THEN sq
                      ELSE BareEnd(s, p)
            IN  IF e = 0 THEN noMatch
                ELSE [cwd |-> StripQuotes(SubSeq(s, p, e)),
                      cmd |-> Trim(SubSeq(s, CdRest(s, e), Len(s)))]

(***************************************************************************)
(* ProcessKiller.parsePort (and parsePort of extension.ts, the same code). *)
(* A URL string is modelled by what new URL() makes of it: malformed, or a *)
(* scheme and the port as written (None when no port is written).          *)
(***************************************************************************)
DefaultPort(scheme) ==
    CASE scheme = "http"  -> 80
      [] scheme = "https" -> 443
      [] scheme = "ftp"   -> 21
      [] OTHER            -> None

\* URL.port: "" when no port is written or the written one is the scheme's default
UrlPortText(url) ==
    IF url.port = None \/ url.port = DefaultPort(url.scheme) THEN None ELSE url.port

parsePort(url) ==
    IF url.scheme = "malformed" THEN None
    ELSE IF UrlPortText(url) # None THEN UrlPortText(url)
    ELSE IF url.scheme = "https" THEN 443
    ELSE IF url.scheme = "http" THEN 80
    ELSE None

(***************************************************************************)
(* ProcessKiller.resolveCommand and parseStartCommand.  The answer of the  *)
(* interactive shell is an input: sh.type is "error" (the exec failed or   *)
(* timed out), "alias" (sh.text is what follows "is aliased to" / "is an   *)
(* alias for" and the white space after it), "function" (sh.body is the    *)
(* lines which printed, sh.whichFails its failure) or "other".             *)
(***************************************************************************)
WordChars ==
    {"a", "b", "c", "d", "e", "g", "i", "k", "m", "n", "p", "q", "r", "s",
     "t", "u", "x", "y", "z", "A", "V", "0", "1", "_"}

\* the backquote character, spelled out
Backtick == "backtick"

BackQuotes == {Backtick, "'"}

\* the lazy group between the optional quote characters of the type output,
\* which is trimmed
AliasGroup(r) ==
    LET r1 == IF Len(r) >= 2 /\ r[1] \in BackQuotes THEN Tail(r) ELSE r
    IN  IF Len(r1) >= 2 /\ r1[Len(r1)] \in BackQuotes
        THEN SubSeq(r1, 1, Len(r1) - 1)
        ELSE r1

SkipPrefixes ==
    { <<"c", "d", " ">>, <<"e", "x", "p", "o", "r", "t", " ">>,
      <<"s", "o", "u", "r", "c", "e", " ">>, <<"e", "x", "i", "t">>,
      <<"r", "e", "t", "u", "r", "n">>, <<".">>, <<"#">>, <<"{">>, <<"}">>,
      <<"e", "n", "s", "u", "r", "e", "_">>, <<"g", "i", "t", " ">>,
      <<"c", "h", "m", "o", "d", " ">>, <<"m", "k", "d", "i", "r", " ">> }

SetupWords ==
    { <<"u", "p", "t", "o", "d", "a", "t", "e">>, <<"s", "e", "t", "u", "p">>,
      <<"i", "n", "s", "t", "a", "l", "l">>,
      <<"b", "o", "o", "t", "s", "t", "r", "a", "p">>,
      <<"m", "i", "g", "r", "a", "t", "e">> }

\* length of the run of characters of cs that opens s
RunLen(s, cs) ==
    IF \E j \in 1..Len(s) : s[j] \notin cs
    THEN (CHOOSE j \in 1..Len(s) :
             s[j] \notin cs /\ \A k \in 1..(j - 1) : s[k] \in cs) - 1
    ELSE Len(s)

\* /^[\w_]+\s*\(\)/
IsFunctionDecl(l) ==
    LET w == RunLen(l, WordChars)
        i == SkipWs(l, w + 1)
    IN  w >= 1 /\ i + 1 <= Len(l) /\ l[i] = "(" /\ l[i + 1] = ")"

skip(l) ==
    \/ \E pre \in SkipPrefixes : StartsWith(l, pre)
    \/ IsFunctionDecl(l)

\* lower-case alphabet only: the /i flag changes nothing here
setup(l) == \E w \in SetupWords : Contains(l, w)

\* length of the run of non-blank characters that opens s
NonWsRunLen(s) ==
    IF \E j \in 1..Len(s) : IsWs(s[j])
    THEN (CHOOSE j \in 1..Len(s) :
             IsWs(s[j]) /\ \A k \in 1..(j - 1) : ~IsWs(s[k])) - 1
    ELSE Len(s)

\* l.replace(/^(?:[\w]+=\S+\s+)+/, '')
RECURSIVE StripAssignments(_)
StripAssignments(l) ==
    LET w == RunLen(l, WordChars)
    IN  IF w >= 1 /\ w + 1 <= Len(l) /\ l[w + 1] = "="
        THEN LET rest  == SubSeq(l, w + 2, Len(l))
                 nonWs == NonWsRunLen(rest)
             IN  IF nonWs >= 1 /\ nonWs < Len(rest)
                 THEN StripAssignments(SubSeq(rest, SkipWs(rest, nonWs + 1), Len(rest)))
                 ELSE l
        ELSE l

\* resolveCommand without the cmds.length > 0 test on the function body
resolveCommandJoiningAnyway(command, sh) ==
    IF sh.type = "error" THEN [found |-> FALSE, cwd |-> Undef, cmd |-> command]
    ELSE IF sh.type = "alias"
    THEN LET expanded == AliasGroup(sh.text)
             parsed   == parseCdPrefix(expanded)
         IN  IF Truthy(parsed.cwd)
             THEN [found |-> TRUE, cwd |-> parsed.cwd, cmd |-> parsed.cmd]
             ELSE [found |-> TRUE, cwd |-> Undef, cmd |-> expanded]
    ELSE IF sh.type = "function" /\ ~sh.whichFails
    THEN LET lines == SeqFilterNonEmpty([i \in 1..Len(sh.body) |-> Trim(sh.body[i])])
             kept  == SelectSeq(lines, LAMBDA l : ~skip(l) /\ ~setup(l))
             cmds  == [i \in 1..Len(kept) |-> StripAssignments(kept[i])]
         IN  [found |-> TRUE, cwd |-> Undef, cmd |-> JoinWith(cmds, <<" ", "&", "&", " ">>)]
    ELSE [found |-> FALSE, cwd |-> Undef, cmd |-> command]

resolveCommand(command, sh) ==
    IF sh.type = "error" THEN [found |-> FALSE, cwd |-> Undef, cmd |-> command]
    ELSE IF sh.type = "alias"
    THEN LET expanded == AliasGroup(sh.text)
             parsed   == parseCdPrefix(expanded)
         IN  IF Truthy(parsed.cwd)
             THEN [found |-> TRUE, cwd |-> parsed.cwd, cmd |-> parsed.cmd]
             ELSE [found |-> TRUE, cwd |-> Undef, cmd |-> expanded]
    ELSE IF sh.type = "function" /\ ~sh.whichFails
    THEN LET lines == SeqFilterNonEmpty([i \in 1..Len(sh.body) |-> Trim(sh.body[i])])
             kept  == SelectSeq(lines, LAMBDA l : ~skip(l) /\ ~setup(l))
             cmds  == [i \in 1..Len(kept) |-> StripAssignments(kept[i])]
         IN  IF Len(cmds) > 0
             THEN [found |-> TRUE, cwd |-> Undef,
                   cmd |-> JoinWith(cmds, <<" ", "&", "&", " ">>)]
             ELSE [found |-> FALSE, cwd |-> Undef, cmd |-> command]
    ELSE [found |-> FALSE, cwd |-> Undef, cmd |-> command]

\* /^\S+$/
IsBareWord(s) == s # <<>> /\ \A i \in 1..Len(s) : ~IsWs(s[i])

parseStartCommand(startCommand, plat, sh) ==
    LET parsed == parseCdPrefix(startCommand)
    IN  IF Truthy(parsed.cwd) THEN parsed
        ELSE IF plat # "win32" /\ IsBareWord(startCommand)
                  /\ resolveCommand(startCommand, sh).found
        THEN LET r == resolveCommand(startCommand, sh)
             IN  [cwd |-> r.cwd, cmd |-> r.cmd]
        ELSE [cwd |-> Undef, cmd |-> startCommand]

(***************************************************************************)
(* ProcessKiller.shellEscape and the command lines given to exec, which    *)
(* runs them with /bin/sh -c.  ShLex is what sh makes of a line: the words *)
(* of the command, and whether it met anything but one simple command (an  *)
(* unquoted ; & | $ or backquote, parentheses, an unterminated quote).     *)
(***************************************************************************)
Quote == "'"

Backslash == "\\"

\* "'" + s.replace(/'/g, "'\\''") + "'"
RECURSIVE EscapeQuotes(_)
EscapeQuotes(s) ==
    IF s = <<>> THEN <<>>
    ELSE (IF Head(s) = Quote THEN <<Quote, Backslash, Quote, Quote>> ELSE <<Head(s)>>)
             \o EscapeQuotes(Tail(s))

shellEscape(s) == <<Quote>> \o EscapeQuotes(s) \o <<Quote>>

ShellPath == <<"/", "b", "i", "n", "/", "b", "a", "s", "h">>

DevNull == <<" ", "2", ">", "/", "d", "e", "v", "/", "n", "u", "l", "l">>

\* pgrep -f ${this.shellEscape(pattern)}
PgrepLine(pattern) == <<"p", "g", "r", "e", "p", " ", "-", "f", " ">> \o shellEscape(pattern)

\* ${shell} -ic 'type ${this.shellEscape(command)}' 2>/dev/null
TypeLine(command) ==
    ShellPath \o <<" ", "-", "i", "c", " ", Quote, "t", "y", "p", "e", " ">>
        \o shellEscape(command) \o <<Quote>> \o DevNull

\* ${shell} -ic 'which ${this.shellEscape(command)}' 2>/dev/null
WhichLine(command) ==
    ShellPath \o <<" ", "-", "i", "c", " ", Quote, "w", "h", "i", "c", "h", " ">>
        \o shellEscape(command) \o <<Quote>> \o DevNull

\* characters that end a simple command or start an expansion when unquoted
ShActive == {";", "&", "|", "$", Backtick, "(", ")", "\""}

\* the lexer state m is "plain", "quote" (inside '...') or "redir" (the
\* target of a redirection, which is no word of the command)
RECURSIVE ShLexFrom(_, _, _, _, _, _)
ShLexFrom(s, m, word, has, words, extra) ==
    IF s = <<>>
    THEN [words |-> IF has /\ m # "redir" THEN Append(words, word) ELSE words,
          extra |-> extra \/ m = "quote"]
    ELSE IF m = "quote"
    THEN IF Head(s) = Quote
         THEN ShLexFrom(Tail(s), "plain", word, has, words, extra)
         ELSE ShLexFrom(Tail(s), "quote", Append(word, Head(s)), has, words, extra)
    ELSE IF m = "redir"
    THEN IF IsWs(Head(s))
         THEN ShLexFrom(Tail(s), "plain", <<>>, FALSE, words, extra)
         ELSE ShLexFrom(Tail(s), "redir", <<>>, FALSE, words, extra)
    ELSE IF Head(s) = Quote
    THEN ShLexFrom(Tail(s), "quote", word, TRUE, words, extra)
    ELSE IF Head(s) = Backslash /\ Len(s) >= 2
    THEN ShLexFrom(Tail(Tail(s)), "plain", Append(word, s[2]), TRUE, words, extra)
    ELSE IF IsWs(Head(s))
    THEN ShLexFrom(Tail(s), "plain", <<>>, FALSE,
                   IF has THEN Append(words, word) ELSE words, extra)
    ELSE IF Head(s) = ">"
    THEN \* the file descriptor before > is no word either
         ShLexFrom(Tail(s), "redir", <<>>, FALSE, words, extra)
    ELSE IF Head(s) \in ShActive
    THEN ShLexFrom(Tail(s), "plain", <<>>, FALSE,
                   IF has THEN Append(words, word) ELSE words, TRUE)
    ELSE ShLexFrom(Tail(s), "plain", Append(word, Head(s)), TRUE, words, extra)

ShLex(line) == ShLexFrom(line, "plain", <<>>, FALSE, <<>>, FALSE)

\* one exec call: the utility, the string interpolated, the line built
ExecCall(util, arg, line) == [util |-> util, arg |-> arg, line |-> line]

\* the exec calls of resolveCommand for a bare word
resolveCommandLines(command, sh) ==
    <<ExecCall("type", command, TypeLine(command))>>
        \o (IF sh.type = "function"
            THEN <<ExecCall("which", command, WhichLine(command))>>
            ELSE <<>>)

\* the exec calls of killByCommand that search a pattern
killByCommandLines(cmd) ==
    LET patterns == <<cmd>> \o splitCommandSegments(cmd)
    IN  [i \in 1..Len(patterns) |-> ExecCall("pgrep", patterns[i], PgrepLine(patterns[i]))]

(***************************************************************************)
(* State.  The process table the OS utilities report on, the platform, the *)
(* tool's own process, the tracked terminals of extension.ts, and the last *)
(* operation with everything it did.                                       *)
(***************************************************************************)
VARIABLES
    platform,   \* process.platform
    ownPid,     \* process.pid
    ppidOf,     \* pid -> parent pid (0 for init)
    procCmd,    \* pid -> command line
    procCwd,    \* pid -> working directory
    procPort,   \* pid -> TCP port it listens on (0: none)
    terminals,  \* extension.ts: ids of the entries with a tracked terminal
    pc,         \* "idle" or "done"
    call,       \* the operation that ran, its entry, what the shell answered
    out,        \* what it returned and the OS invocations it made
    servers,            \* ServerStore.servers
    config,             \* config.servers: the persisted entries, by name (and URL)
    nextId,             \* the next id crypto.randomUUID() returns
    previousStatuses,   \* HealthChecker.previousStatuses: id -> status
    pending,            \* the checkOne calls awaiting their ping
    reachable,          \* the names whose server answers a request
    warning,            \* the name in the warning the last handler showed
    intervalId,         \* HealthChecker.intervalId, NoTimer when undefined
    timers,             \* the interval timers that are set
    shown               \* per server name, the "is down" warnings shown since the
                        \* server last stopped answering

envVars == <<platform, ownPid, ppidOf, procCmd, procCwd, procPort>>
timerVars == <<intervalId, timers>>
healthVars == <<servers, config, nextId, previousStatuses, pending, reachable, warning,
                intervalId, timers, shown>>
vars == <<platform, ownPid, ppidOf, procCmd, procCwd, procPort, terminals, pc, call, out,
          servers, config, nextId, previousStatuses, pending, reachable, warning,
          intervalId, timers, shown>>

Pids == DOMAIN ppidOf

\* the real ancestors of the tool, init excluded
RECURSIVE AncestorsOf(_)
AncestorsOf(p) ==
    IF ppidOf[p] = 0 \/ ppidOf[p] = InitPid THEN {}
    ELSE {ppidOf[p]} \cup AncestorsOf(ppidOf[p])

\* the real descendants of a process
RECURSIVE DescendantsOf(_)
DescendantsOf(p) ==
    UNION {{c} \cup DescendantsOf(c) : c \in {q \in Pids : ppidOf[q] = p}}

(***************************************************************************)
(* OS invocations.  fx says which utilities fail in this operation:        *)
(* fx.pgrep, fx.children, fx.cwd, fx.lsof, fx.kill are booleans, fx.psOk   *)
(* is the number of parent lookups that succeed before one fails.          *)
(*                                                                         *)
(* An operation leaves a trace of events, in order:                        *)
(*   pgrep     pattern searched, pids matched, filtered (those that passed *)
(*             the cwd test), kept (what pgrepWithCwd returned)            *)
(*   lsof, netstat   port looked up, pids listening                        *)
(*   safe      killSafePids entered with candidates pids, exclusion set    *)
(*             own, targets kept                                           *)
(*   kill, taskkill  termination command issued for pids                   *)
(* failed tells that the utility failed, cwdFailed that the working        *)
(* directories of the matches could not be read.                           *)
(***************************************************************************)
Event(op, pattern, port, pids, filtered, kept, own, failed, cwdFailed) ==
    [op |-> op, pattern |-> pattern, port |-> port, pids |-> pids,
     filtered |-> filtered, kept |-> kept, own |-> own, failed |-> failed,
     cwdFailed |-> cwdFailed]

PgrepEvent(pattern, pids, filtered, kept, failed, cwdFailed) ==
    Event("pgrep", pattern, None, pids, filtered, kept, {}, failed, cwdFailed)

PortEvent(op, port, pids, failed) ==
    Event(op, <<>>, port, pids, pids, pids, {}, failed, FALSE)

SafeEvent(pids, own, targets) ==
    Event("safe", <<>>, None, pids, pids, targets, own, FALSE, FALSE)

KillEvent(op, pids, failed) ==
    Event(op, <<>>, None, pids, pids, pids, {}, failed, FALSE)

\* the element of a one-element set: The({e(x) : x \in {v}}) is e(v) with v
\* computed once, a const binding
The(S) == CHOOSE x \in S : TRUE

\* what a strategy hands back: ret is "true", "false" or "threw"
Outcome(ret, ops, log, psLookups) ==
    [ret |-> ret, ops |-> ops, log |-> log, psLookups |-> psLookups]

\* b after a: the return value of b, the events and log lines of both
Then(a, b) == Outcome(b.ret, a.ops \o b.ops, a.log \o b.log, a.psLookups + b.psLookups)

(***************************************************************************)
(* ProcessKiller.getOwnPids                                                *)
(***************************************************************************)
RECURSIVE AncestorWalk(_, _, _, _)
AncestorWalk(current, i, own, fx) ==
    IF i >= MaxHops THEN [own |-> own, lookups |-> i]
    ELSE IF i >= fx.psOk THEN [own |-> own, lookups |-> i + 1]
    ELSE LET ppid == ppidOf[current]
         IN  IF ppid = 0 \/ ppid <= 1 THEN [own |-> own, lookups |-> i + 1]
             ELSE AncestorWalk(ppid, i + 1, own \cup {ppid}, fx)

\* the walk with the loop test i <= 20
RECURSIVE AncestorWalkOneMoreHop(_, _, _, _)
AncestorWalkOneMoreHop(current, i, own, fx) ==
    IF i > MaxHops THEN [own |-> own, lookups |-> i]
    ELSE IF i >= fx.psOk THEN [own |-> own, lookups |-> i + 1]
    ELSE LET ppid == ppidOf[current]
         IN  IF ppid = 0 \/ ppid <= 1 THEN [own |-> own, lookups |-> i + 1]
             ELSE AncestorWalkOneMoreHop(ppid, i + 1, own \cup {ppid}, fx)

getOwnPidsOneMoreHop(fx) ==
    LET ppid == ppidOf[ownPid]
        own0 == {ownPid} \cup (IF ppid # 0 THEN {ppid} ELSE {})
    IN  AncestorWalkOneMoreHop(ownPid, 0, own0, fx)

getOwnPids(fx) ==
    LET ppid == ppidOf[ownPid]
        own0 == {ownPid} \cup (IF ppid # 0 THEN {ppid} ELSE {})
    IN  AncestorWalk(ownPid, 0, own0, fx)

(***************************************************************************)
(* ProcessKiller.getDescendants                                            *)
(***************************************************************************)
\* one level of pgrep -P only, without the recursion
getDescendantsChildrenOnly(pid, fx) ==
    IF fx.children THEN {}
    ELSE {q \in Pids : ppidOf[q] = pid}

RECURSIVE getDescendants(_, _)
getDescendants(pid, fx) ==
    IF fx.children THEN {}
    ELSE UNION {{child} \cup getDescendants(child, fx) :
                    child \in {q \in Pids : ppidOf[q] = pid}}

(***************************************************************************)
(* ProcessKiller.killSafePids                                              *)
(***************************************************************************)
\* killSafePids without the ownPids.has(pid) test on the candidates
killSafePidsUnchecked(pids, fx) ==
    LET o       == getOwnPids(fx)
        ownPids == o.own
        allPids == UNION {{pid} \cup {child \in getDescendants(pid, fx) :
                                         child \notin ownPids} : pid \in pids}
        safe    == SafeEvent(pids, ownPids, allPids)
    IN  IF allPids # {}
        THEN IF fx.kill
             THEN Outcome("threw", <<safe, KillEvent("kill", allPids, TRUE)>>,
                          <<"Own process tree (excluded)", "Killing PIDs (with descendants)">>,
                          o.lookups)
             ELSE Outcome("true", <<safe, KillEvent("kill", allPids, FALSE)>>,
                          <<"Own process tree (excluded)", "Killing PIDs (with descendants)",
                            "Process(es) killed successfully">>,
                          o.lookups)
        ELSE Outcome("false", <<safe>>,
                     <<"Own process tree (excluded)",
                       "All matched PIDs are in own process tree">>,
                     o.lookups)

\* killSafePids reporting success whenever it was given a candidate
killSafePidsReportingMatches(pids, fx) ==
    The({ IF r.ret = "false" /\ pids # {} THEN [r EXCEPT !.ret = "true"] ELSE r
          : r \in {killSafePidsUnchecked(pids \ getOwnPids(fx).own, fx)} })

killSafePids(pids, fx) ==
    LET o       == getOwnPids(fx)
        ownPids == o.own
        allPids == UNION {IF pid \notin ownPids
                          THEN {pid} \cup {child \in getDescendants(pid, fx) :
                                              child \notin ownPids}
                          ELSE {} : pid \in pids}
        safe    == SafeEvent(pids, ownPids, allPids)
    IN  IF allPids # {}
        THEN IF fx.kill
             THEN Outcome("threw", <<safe, KillEvent("kill", allPids, TRUE)>>,
                          <<"Own process tree (excluded)", "Killing PIDs (with descendants)">>,
                          o.lookups)
             ELSE Outcome("true", <<safe, KillEvent("kill", allPids, FALSE)>>,
                          <<"Own process tree (excluded)", "Killing PIDs (with descendants)",
                            "Process(es) killed successfully">>,
                          o.lookups)
        ELSE Outcome("false", <<safe>>,
                     <<"Own process tree (excluded)",
                       "All matched PIDs are in own process tree">>,
                     o.lookups)

(***************************************************************************)
(* ProcessKiller.getProcessCwd and pgrepWithCwd                            *)
(***************************************************************************)
getProcessCwd(pid, fx) ==
    IF fx.cwd THEN Undef
    ELSE IF platform = "linux"
    THEN (IF Trim(procCwd[pid]) # <<>> THEN Trim(procCwd[pid]) ELSE Undef)
    ELSE IF platform = "darwin"
    THEN (IF StartsWith(procCwd[pid], <<"/">>) THEN procCwd[pid] ELSE Undef)
    ELSE Undef

\* the pids pgrep -f prints for a pattern
PgrepF(pattern) == {p \in Pids : Contains(procCmd[p], pattern)}

\* the earlier pgrepWithCwd (src/unnamed/part_005, lines 69-94): when the cwd
\* filter leaves nothing it logs "using all pgrep matches" and keeps them all
pgrepWithCwdKeepingAll(pattern, cwd, fx) ==
    LET raw == IF fx.pgrep THEN {} ELSE PgrepF(pattern)
        filtered == {pid \in raw :
                        /\ getProcessCwd(pid, fx) # Undef
                        /\ StartsWith(getProcessCwd(pid, fx), cwd)}
    IN  IF fx.pgrep \/ raw = {}
        THEN [pids |-> {}, log |-> <<>>,
              op |-> PgrepEvent(pattern, {}, {}, {}, fx.pgrep, FALSE)]
        ELSE IF Truthy(cwd)
        THEN IF filtered # {}
             THEN [pids |-> filtered, log |-> <<"pgrep matched PIDs", "After cwd filter">>,
                   op |-> PgrepEvent(pattern, raw, filtered, filtered, FALSE, fx.cwd)]
             ELSE [pids |-> raw,
                   log |-> <<"pgrep matched PIDs",
                             "No PIDs matched cwd, using all pgrep matches">>,
                   op |-> PgrepEvent(pattern, raw, {}, raw, FALSE, fx.cwd)]
        ELSE [pids |-> raw, log |-> <<"pgrep matched PIDs">>,
              op |-> PgrepEvent(pattern, raw, raw, raw, FALSE, FALSE)]

\* pgrepWithCwd keeping only the processes whose cwd is the hint itself
pgrepWithCwdSameDirectory(pattern, cwd, fx) ==
    LET raw == IF fx.pgrep THEN {} ELSE PgrepF(pattern)
        filtered == {pid \in raw : getProcessCwd(pid, fx) = cwd}
    IN  IF fx.pgrep \/ raw = {}
        THEN [pids |-> {}, log |-> <<>>,
              op |-> PgrepEvent(pattern, {}, {}, {}, fx.pgrep, FALSE)]
        ELSE IF Truthy(cwd)
        THEN IF filtered # {}
             THEN [pids |-> filtered, log |-> <<"pgrep matched PIDs", "After cwd filter">>,
                   op |-> PgrepEvent(pattern, raw, filtered, filtered, FALSE, fx.cwd)]
             ELSE [pids |-> {},
                   log |-> <<"pgrep matched PIDs", "No PIDs matched cwd, skipping">>,
                   op |-> PgrepEvent(pattern, raw, {}, {}, FALSE, fx.cwd)]
        ELSE [pids |-> raw, log |-> <<"pgrep matched PIDs">>,
              op |-> PgrepEvent(pattern, raw, raw, raw, FALSE, FALSE)]

pgrepWithCwd(pattern, cwd, fx) ==
    LET raw == IF fx.pgrep THEN {} ELSE PgrepF(pattern)
        filtered == {pid \in raw :
                        /\ getProcessCwd(pid, fx) # Undef
                        /\ StartsWith(getProcessCwd(pid, fx), cwd)}
    IN  IF fx.pgrep \/ raw = {}
        THEN \* pgrep failed, or exited 1 with no match: the catch returns []
             [pids |-> {}, log |-> <<>>,
              op |-> PgrepEvent(pattern, {}, {}, {}, fx.pgrep, FALSE)]
        ELSE IF Truthy(cwd)
        THEN IF filtered # {}
             THEN [pids |-> filtered, log |-> <<"pgrep matched PIDs", "After cwd filter">>,
                   op |-> PgrepEvent(pattern, raw, filtered, filtered, FALSE, fx.cwd)]
             ELSE [pids |-> {},
                   log |-> <<"pgrep matched PIDs", "No PIDs matched cwd, skipping">>,
                   op |-> PgrepEvent(pattern, raw, {}, {}, FALSE, fx.cwd)]
        ELSE [pids |-> raw, log |-> <<"pgrep matched PIDs">>,
              op |-> PgrepEvent(pattern, raw, raw, raw, FALSE, FALSE)]

(***************************************************************************)
(* ProcessKiller.killByCommand                                             *)
(***************************************************************************)
\* the probes of a list of patterns, in order
Probes(patterns, cwd, fx) ==
    [i \in 1..Len(patterns) |-> pgrepWithCwd(patterns[i], cwd, fx)]

ProbeOps(pr) == [i \in 1..Len(pr) |-> pr[i].op]

RECURSIVE ProbeLogs(_)
ProbeLogs(pr) == IF pr = <<>> THEN <<>> ELSE Head(pr).log \o ProbeLogs(Tail(pr))

\* the earlier killByCommand (src/unnamed/part_005, lines 51-66): the whole
\* command and the segments are tried in turn and the first match is killed
killByCommandFirstMatch(cmd, cwd, fx) ==
    LET pr   == Probes(<<cmd>> \o splitCommandSegments(cmd), cwd, fx)
        hits == {i \in 1..Len(pr) : pr[i].pids # {}}
        last == IF hits = {} THEN Len(pr)
                ELSE CHOOSE i \in hits : \A k \in hits : i <= k
        tried  == SubSeq(pr, 1, last)
        probed == Outcome("false", ProbeOps(tried), ProbeLogs(tried), 0)
    IN  IF hits # {}
        THEN Then(probed, killSafePids(pr[last].pids, fx))
        ELSE Then(probed,
                  Outcome("false", <<>>, <<"No process found matching command pattern">>, 0))

\* killByCommand searching the segments only, never the command as a whole
killByCommandSegmentsOnly(cmd, cwd, fx) ==
    LET segments == splitCommandSegments(cmd)
        pr       == Probes(segments, cwd, fx)
        allPids  == UNION {pr[i].pids : i \in 1..Len(pr)}
        probed   == Outcome("false", ProbeOps(pr), ProbeLogs(pr), 0)
    IN  IF Len(segments) > 0 /\ allPids # {}
        THEN Then(probed, killSafePids(allPids, fx))
        ELSE Then(probed,
                  Outcome("false", <<>>, <<"No process found matching command pattern">>, 0))

killByCommand(cmd, cwd, fx) ==
    LET full     == pgrepWithCwd(cmd, cwd, fx)
        segments == splitCommandSegments(cmd)
        pr       == Probes(segments, cwd, fx)
        allPids  == UNION {pr[i].pids : i \in 1..Len(pr)}
        probed   == Outcome("false", <<full.op>> \o ProbeOps(pr),
                            full.log \o ProbeLogs(pr), 0)
    IN  IF full.pids # {}
        THEN Then(Outcome("false", <<full.op>>, full.log, 0), killSafePids(full.pids, fx))
        ELSE IF Len(segments) > 0 /\ allPids # {}
        THEN Then(probed, killSafePids(allPids, fx))
        ELSE Then(probed,
                  Outcome("false", <<>>, <<"No process found matching command pattern">>, 0))

(***************************************************************************)
(* ProcessKiller.killByPort                                                *)
(***************************************************************************)
\* the pids listening on a port (lsof -ti :port -sTCP:LISTEN, netstat -ano)
Listeners(port) == {p \in Pids : procPort[p] = port}

\* taskkill /PID pid /F for each pid in turn, a failure of one is swallowed
RECURSIVE Taskkills(_, _)
Taskkills(pids, fx) ==
    IF pids = {} THEN <<>>
    ELSE LET pid == CHOOSE x \in pids : \A y \in pids : x <= y
         IN  <<KillEvent("taskkill", {pid}, fx.kill)>> \o Taskkills(pids \ {pid}, fx)

killByPort(port, fx) ==
    LET pids == Listeners(port)
    IN  IF platform = "win32"
        THEN IF fx.lsof \/ pids = {}
             THEN \* findstr exits 1 when nothing is listening
                  Outcome("false", <<PortEvent("netstat", port, {}, fx.lsof)>>,
                          <<"No process on port">>, 0)
             ELSE Outcome("true",
                          <<PortEvent("netstat", port, pids, FALSE)>> \o Taskkills(pids, fx),
                          <<"Found PIDs on port", "Killed process(es)">>, 0)
        ELSE IF fx.lsof \/ pids = {}
             THEN \* lsof exits 1 when nothing is listening
                  Outcome("false", <<PortEvent("lsof", port, {}, fx.lsof)>>,
                          <<"No process on port">>, 0)
             ELSE LET k == Then(Outcome("false", <<PortEvent("lsof", port, pids, FALSE)>>,
                                        <<"lsof found PIDs on port">>, 0),
                                killSafePids(pids, fx))
                  IN  IF k.ret = "threw"
                      THEN \* the catch of killByPort
                           Then(k, Outcome("false", <<>>, <<"No process on port">>, 0))
                      ELSE k

(***************************************************************************)
(* ProcessKiller.kill                                                      *)
(***************************************************************************)
\* strategy 2 without the test for ports 80 and 443, as the restart command has it
killPortFallbackAnyPort(url, fx) ==
    LET port == parsePort(url)
    IN  IF port # None /\ port # 0
        THEN Then(Outcome("false", <<>>, <<"Falling back to port-based kill">>, 0),
                  killByPort(port, fx))
        ELSE Outcome("false", <<>>, <<"No matching process found">>, 0)

\* strategy 2 and what follows it
killPortFallback(url, fx) ==
    LET port == parsePort(url)
    IN  IF port # None /\ port # 0 /\ port # 80 /\ port # 443
        THEN Then(Outcome("false", <<>>, <<"Falling back to port-based kill">>, 0),
                  killByPort(port, fx))
        ELSE IF port = 80 \/ port = 443
        THEN Outcome("false", <<>>,
                     <<"Skipping port (likely a reverse proxy)", "No matching process found">>,
                     0)
        ELSE Outcome("false", <<>>, <<"No matching process found">>, 0)

\* the log line kill opens with
KillStart == Outcome("false", <<>>, <<"Server: cmd">>, 0)

\* the port-first kill (src/unnamed/part_004, lines 22-46): the port strategy
\* runs first and the command pattern is the fallback
killPortFirst(entry, fx, sh) ==
    LET parsed == parseStartCommand(entry.startCommand, platform, sh)
        start  == Outcome("false", <<>>, <<"Server: cmd">>, 0)
        port   == parsePort(entry.url)
        byPort == IF port # None /\ port # 0 /\ port # 80 /\ port # 443
                  THEN killByPort(port, fx)
                  ELSE Outcome("false", <<>>, <<>>, 0)
        byCmd  == killByCommand(parsed.cmd, parsed.cwd, fx)
        none   == Outcome("false", <<>>, <<"No matching process found">>, 0)
        res    == IF byPort.ret # "false"
                  THEN Then(start, byPort)
                  ELSE IF platform # "win32"
                  THEN IF byCmd.ret # "false"
                       THEN Then(Then(start, byPort), byCmd)
                       ELSE Then(Then(Then(start, byPort), byCmd), none)
                  ELSE Then(Then(start, byPort), none)
    IN  [ret |-> res.ret, ops |-> res.ops, log |-> res.log, psLookups |-> res.psLookups,
         cmd |-> parsed.cmd, cwd |-> parsed.cwd]

kill(entry, fx, sh) ==
    The({ The({ [ret |-> res.ret, ops |-> res.ops, log |-> res.log,
                 psLookups |-> res.psLookups, cmd |-> parsed.cmd, cwd |-> parsed.cwd] :
                res \in { IF platform # "win32"
                          THEN The({ IF byCmd.ret # "false"
                                     THEN Then(KillStart, byCmd)
                                     ELSE Then(Then(KillStart, byCmd),
                                               killPortFallback(entry.url, fx)) :
                                     byCmd \in {killByCommand(parsed.cmd, parsed.cwd, fx)} })
                          ELSE Then(KillStart, killPortFallback(entry.url, fx)) } }) :
          parsed \in {parseStartCommand(entry.startCommand, platform, sh)} })

(***************************************************************************)
(* extension.ts: killProcessOnPort and the quickServe.restartServer        *)
(* command                                                                 *)
(***************************************************************************)
killProcessOnPort(port, fx) ==
    LET pids == Listeners(port)
        o    == getOwnPids(fx)
        safePids == {pid \in pids : pid \notin o.own}
    IN  IF platform = "win32"
        THEN IF fx.lsof \/ pids = {}
             THEN Outcome("false", <<PortEvent("netstat", port, {}, fx.lsof)>>, <<>>, 0)
             ELSE Outcome("true",
                          <<PortEvent("netstat", port, pids, FALSE)>> \o Taskkills(pids, fx),
                          <<>>, 0)
        ELSE IF fx.lsof \/ pids = {}
             THEN Outcome("false", <<PortEvent("lsof", port, {}, fx.lsof)>>, <<>>, 0)
             ELSE IF safePids # {}
             THEN \* a failing kill is caught: false
                  Outcome(IF fx.kill THEN "false" ELSE "true",
                          << PortEvent("lsof", port, pids, FALSE),
                             SafeEvent(pids, o.own, safePids),
                             KillEvent("kill", safePids, fx.kill) >>,
                          <<>>, o.lookups)
             ELSE Outcome("false",
                          << PortEvent("lsof", port, pids, FALSE),
                             SafeEvent(pids, o.own, safePids) >>,
                          <<>>, o.lookups)

restartServer(entry, fx) ==
    LET port == parsePort(entry.url)
        k    == IF port # None /\ port # 0
                THEN killProcessOnPort(port, fx)
                ELSE Outcome("false", <<>>, <<>>, 0)
    IN  [ret |-> k.ret, ops |-> k.ops, log |-> k.log, psLookups |-> k.psLookups,
         cmd |-> entry.startCommand, cwd |-> Undef]

(***************************************************************************)
(* Inputs.                                                                 *)
(***************************************************************************)
AndAnd == <<" ", "&", "&", " ">>
CdTo(dir) == <<"c", "d", " ">> \o dir \o AndAnd

CmdA == <<"a">>
CmdB == <<"b">>
CmdZ == <<"z">>
CmdAB == CmdA \o AndAnd \o CmdB
CmdX == <<"x">>

DirP == <<"/", "p">>
DirPSub == <<"/", "p", "/", "s">>
DirPQ == <<"/", "p", "q">>
DirX == <<"/", "x">>

Url(scheme, port) == [scheme |-> scheme, port |-> port]

Entry(startCommand, url) == [id |-> "s1", startCommand |-> startCommand, url |-> url]

Fx(pgrep, psOk, children, cwd, lsof, kill_) ==
    [pgrep |-> pgrep, psOk |-> psOk, children |-> children, cwd |-> cwd,
     lsof |-> lsof, kill |-> kill_]

NoFailure == Fx(FALSE, MaxHops, FALSE, FALSE, FALSE, FALSE)

\* no utility fails, or one does
Failures ==
    { NoFailure,
      [NoFailure EXCEPT !.pgrep = TRUE],
      [NoFailure EXCEPT !.psOk = 0],
      [NoFailure EXCEPT !.psOk = 1],
      [NoFailure EXCEPT !.children = TRUE],
      [NoFailure EXCEPT !.cwd = TRUE],
      [NoFailure EXCEPT !.lsof = TRUE],
      [NoFailure EXCEPT !.kill = TRUE] }

Shell(type, text, body, whichFails) ==
    [type |-> type, text |-> text, body |-> body, whichFails |-> whichFails]

NotAsked == Shell("none", <<>>, <<>>, FALSE)

ShellAnswers ==
    { Shell("error", <<>>, <<>>, FALSE),
      Shell("other", <<>>, <<>>, FALSE),
      Shell("alias", <<Backtick>> \o CdTo(DirP) \o CmdA \o <<"'">>, <<>>, FALSE),
      Shell("function", <<>>,
            << <<"x", " ", "(", ")", " ", "{">>, <<"c", "d", " ", "/", "p">>,
               <<"V", "=", "1", " ", "a">>, <<"}">> >>, FALSE),
      Shell("function", <<>>, << <<"c", "d", " ", "/", "p">> >>, FALSE),
      Shell("function", <<>>, <<>>, TRUE) }

\* the shell is asked only about a bare word without a cd prefix, off Windows
ShellAsked(startCommand) ==
    /\ ~Truthy(parseCdPrefix(startCommand).cwd)
    /\ platform # "win32"
    /\ IsBareWord(startCommand)

Proc(cmd, cwd, port) == [cmd |-> cmd, cwd |-> cwd, port |-> port]

\* no operation is running
NoCall == [op |-> "none", entry |-> Entry(<<>>, Url("malformed", None))]

NoOutcome ==
    [ret |-> "none", ops |-> <<>>, log |-> <<>>, psLookups |-> 0, cmd |-> <<>>,
     cwd |-> Undef]

\* no warning shown
NoWarning == "none"

\* intervalId undefined
NoTimer == 0

\* no warning shown for any server
NoneShown == [name \in {"web", "api"} |-> 0]

\* the health checker with no entry to poll
HealthOff ==
    /\ servers = <<>>
    /\ config = <<>>
    /\ nextId = 1
    /\ previousStatuses = <<>>
    /\ pending = {}
    /\ reachable = {}
    /\ warning = NoWarning
    /\ intervalId = NoTimer
    /\ timers = {}
    /\ shown = NoneShown

(***************************************************************************)
(* Initial states: a process table with the tool at the end of a chain of  *)
(* depth ancestors below init, and NExt processes outside that chain, each *)
(* a child of init or of the process numbered before it.                   *)
(***************************************************************************)
InitEnv(Plats, Depths, ToolProcs, ExtProcs) ==
    /\ platform \in Plats
    /\ \E depth \in Depths, tool \in ToolProcs,
          ext \in [1..NExt -> ExtProcs], attach \in [1..NExt -> BOOLEAN] :
          LET own == depth + 2
              all == 1..(own + NExt)
          IN  /\ ownPid = own
              /\ ppidOf = [p \in all |->
                              IF p = InitPid THEN 0
                              ELSE IF p <= own THEN p - 1
                              ELSE IF attach[p - own] THEN p - 1 ELSE InitPid]
              /\ procCmd = [p \in all |->
                              IF p = InitPid THEN <<"i", "n", "i", "t">>
                              ELSE IF p <= own THEN tool.cmd
                              ELSE ext[p - own].cmd]
              /\ procCwd = [p \in all |->
                              IF p = InitPid THEN <<"/">>
                              ELSE IF p <= own THEN tool.cwd
                              ELSE ext[p - own].cwd]
              /\ procPort = [p \in all |->
                              IF p = own THEN tool.port
                              ELSE IF p < own THEN 0
                              ELSE ext[p - own].port]
    /\ terminals = {}
    /\ pc = "idle"
    /\ call = NoCall
    /\ out = NoOutcome
    /\ HealthOff

(***************************************************************************)
(* Actions.                                                                *)
(***************************************************************************)
\* ProcessKiller.kill(entry)
KillOf(entries, failures) ==
    /\ pc = "idle"
    /\ \E entry \in entries, fx \in failures :
          \E sh \in IF ShellAsked(entry.startCommand) THEN ShellAnswers ELSE {NotAsked} :
              /\ call' = [op |-> "kill", entry |-> entry, sh |-> sh]
              /\ out' = kill(entry, fx, sh)
    /\ pc' = "done"
    /\ UNCHANGED <<envVars, terminals, healthVars>>

\* the quickServe.restartServer command, with the close event of the terminal it disposes
RestartOf(entries, failures) ==
    /\ pc = "idle"
    /\ \E entry \in entries, fx \in failures, mode \in {"integrated", "external"} :
          /\ call' = [op |-> "restart", entry |-> entry]
          /\ out' = restartServer(entry, fx)
          /\ terminals' = IF mode = "integrated"
                          THEN terminals \cup {entry.id}
                          ELSE terminals \ {entry.id}
    /\ pc' = "done"
    /\ UNCHANGED <<envVars, healthVars>>

\* the promise has settled and the caller is back in the event loop
Settle ==
    /\ pc = "done"
    /\ pc' = "idle"
    /\ call' = NoCall
    /\ out' = NoOutcome
    /\ UNCHANGED <<envVars, terminals, healthVars>>

(***************************************************************************)
(* Spec: kill and restart on every platform, over process tables in which  *)
(* the tool may itself match the pattern and listen on the server's port.  *)
(***************************************************************************)
Platforms == {"linux", "darwin", "win32"}

ToolProcs == { Proc(CmdZ, DirX, 0), Proc(CmdA, DirP, 3000) }

ExtProcs == { Proc(CmdA, DirP, 3000), Proc(CmdB, DirPSub, 3000), Proc(CmdZ, DirX, 80) }

Commands == { CmdX, CmdAB, CdTo(DirP) \o CmdA, CdTo(DirP) \o CmdAB }

Urls == { Url("http", 3000), Url("http", None), Url("https", None),
          Url("malformed", None) }

Entries == { Entry(c, u) : c \in Commands, u \in Urls }

Init == InitEnv(Platforms, {1}, ToolProcs, ExtProcs)

Kill == KillOf(Entries, Failures)

Restart == RestartOf(Entries, Failures)

Next == Kill \/ Restart \/ Settle

Spec == Init /\ [][Next]_vars

(***************************************************************************)
(* SpecTree: kill on Linux over ancestor chains of every depth up to       *)
(* MaxDepth, the parent lookup failing at any hop.                         *)
(***************************************************************************)
TreeEntries ==
    { Entry(c, u) : c \in {CmdA, CmdAB}, u \in {Url("http", 3000), Url("malformed", None)} }

TreeFailures ==
    { NoFailure, [NoFailure EXCEPT !.psOk = 0], [NoFailure EXCEPT !.psOk = 1],
      [NoFailure EXCEPT !.children = TRUE] }

InitTree ==
    InitEnv({"linux"}, 0..MaxDepth, ToolProcs,
            { Proc(CmdA, DirP, 3000), Proc(CmdB, DirP, 0), Proc(CmdZ, DirX, 0) })

KillTree == KillOf(TreeEntries, TreeFailures)

RestartTree == RestartOf(TreeEntries, TreeFailures)

NextTree == KillTree \/ RestartTree \/ Settle

SpecTree == InitTree /\ [][NextTree]_vars

(***************************************************************************)
(* SpecCwd: kill with a working-directory hint over processes in the       *)
(* hinted directory, below it, beside it and elsewhere.                    *)
(***************************************************************************)
CwdEntries ==
    { Entry(c, u) : c \in { CdTo(DirP) \o CmdA, CdTo(DirP) \o CmdAB, CmdAB },
                    u \in {Url("http", 3000), Url("malformed", None)} }

CwdFailures == { NoFailure, [NoFailure EXCEPT !.cwd = TRUE] }

InitCwd ==
    InitEnv({"linux", "darwin"}, {1}, {Proc(CmdZ, DirX, 0)},
            { Proc(CmdA, DirP, 0), Proc(CmdA, DirPSub, 0), Proc(CmdA, DirPQ, 0),
              Proc(CmdA, DirX, 3000), Proc(CmdB, DirP, 0), Proc(CmdAB, DirX, 0) })

KillCwd == KillOf(CwdEntries, CwdFailures)

RestartCwd == RestartOf(CwdEntries, CwdFailures)

NextCwd == KillCwd \/ RestartCwd \/ Settle

SpecCwd == InitCwd /\ [][NextCwd]_vars

(***************************************************************************)
(* SpecSeg: kill on Linux for every command made of up to MaxSegs segments *)
(* joined by && or ;                                                       *)
(***************************************************************************)
Words == { CmdA, CmdB }

Seps == { AndAnd, <<";">> }

\* the segments written in order, seps[i] between segment i and segment i + 1
RECURSIVE Build(_, _)
Build(segs, seps) ==
    IF Len(segs) = 1 THEN segs[1]
    ELSE segs[1] \o seps[1] \o Build(Tail(segs), Tail(seps))

SegLists == UNION {[1..n -> Words] : n \in 1..MaxSegs}

SepLists(segs) == [1..(Len(segs) - 1) -> Seps]

SegEntries ==
    { Entry(Build(segs, seps), Url("http", 3000)) :
          <<segs, seps>> \in UNION {{s} \X SepLists(s) : s \in SegLists} }

InitSeg ==
    InitEnv({"linux"}, {1}, {Proc(CmdZ, DirX, 0)},
            { Proc(CmdA, DirP, 0), Proc(CmdAB, DirP, 3000), Proc(CmdZ, DirX, 0) })

KillSeg == KillOf(SegEntries, {NoFailure})

NextSeg == KillSeg \/ Settle

SpecSeg == InitSeg /\ [][NextSeg]_vars

(***************************************************************************)
(* SpecParse: kill for start commands written cd <dir> SEP <cmd>, with the *)
(* directory bare or quoted and with or without blanks around SEP, and for *)
(* start commands without a cd prefix.                                     *)
(***************************************************************************)
Blank == <<" ">>

\* a directory and the quote it is written in ("" when written bare)
CdDirs ==
    { [q |-> <<>>, dir |-> DirP], [q |-> <<"'">>, dir |-> DirP],
      [q |-> <<"\"">>, dir |-> DirP],
      [q |-> <<"'">>, dir |-> <<"/", "p", " ", "q">>],
      [q |-> <<"\"">>, dir |-> <<"/", "p", " ", "q">>] }

CdCmds == { CmdA, CmdA \o Blank, CmdAB, <<"a", ";", "b">> }

\* the ways of writing cd <dir> SEP <cmd>
CdForms ==
    [ sp : {Blank, Blank \o Blank}, d : CdDirs, pre : {<<>>, Blank},
      sep : {<<"&", "&">>, <<";">>}, post : {<<>>, Blank}, cmd : CdCmds ]

BuildCd(f) ==
    <<"c", "d">> \o f.sp \o f.d.q \o f.d.dir \o f.d.q \o f.pre \o f.sep \o f.post \o f.cmd

\* start commands that are not a cd followed by a separator
PlainCommands ==
    { CmdX, CmdAB, <<"a", " ", "b">>, <<"c", "d", " ", "/", "p">>,
      <<"c", "d", "x", " ", "&", "&", " ", "a">> }

ParseEntries ==
    { Entry(c, Url("malformed", None)) : c \in {BuildCd(f) : f \in CdForms} \cup PlainCommands }

InitParse ==
    InitEnv({"linux", "win32"}, {1}, {Proc(CmdZ, DirX, 0)}, {Proc(CmdA, DirP, 0)})

KillParse == KillOf(ParseEntries, {NoFailure})

NextParse == KillParse \/ Settle

SpecParse == InitParse /\ [][NextParse]_vars

(***************************************************************************)
(* SpecAlias: kill of a bare word that the shell may report as an alias    *)
(* for cd /p && a, with a server URL naming port 8443, while processes run *)
(* a in directories other than /p and others listen on the port.           *)
(***************************************************************************)
AliasEntries == { Entry(CmdX, Url("https", 8443)) }

InitAlias ==
    InitEnv({"linux", "darwin"}, {1}, {Proc(CmdZ, DirX, 0)},
            { Proc(CmdA, DirX, 0), Proc(CmdA, DirPQ, 0), Proc(CmdB, DirP, 8443),
              Proc(CmdZ, DirX, 0) })

KillAlias == KillOf(AliasEntries, {NoFailure})

NextAlias == KillAlias \/ Settle

SpecAlias == InitAlias /\ [][NextAlias]_vars

(***************************************************************************)
(* SpecShell: the command lines kill hands to exec, for start commands     *)
(* made of a letter, a single quote, a semicolon, a dollar sign and a      *)
(* blank.                                                                  *)
(***************************************************************************)
MaxChars == 3

ShChars == {"a", Quote, ";", "$", " "}

RECURSIVE StringsUpTo(_)
StringsUpTo(n) ==
    IF n = 0 THEN {<<>>}
    ELSE LET shorter == StringsUpTo(n - 1)
         IN  shorter \cup {Append(s, c) : s \in shorter, c \in ShChars}

ShellEntries == { Entry(c, Url("malformed", None)) : c \in StringsUpTo(MaxChars) \ {<<>>} }

\* the exec calls of kill(entry) that interpolate a string of the entry, in order
KillLines(entry, sh) ==
    The({ (IF ShellAsked(entry.startCommand)
           THEN resolveCommandLines(entry.startCommand, sh) ELSE <<>>)
              \o killByCommandLines(parsed.cmd)
          : parsed \in {parseStartCommand(entry.startCommand, platform, sh)} })

ExecOf(entries) ==
    /\ pc = "idle"
    /\ \E entry \in entries :
          \E sh \in IF ShellAsked(entry.startCommand) THEN ShellAnswers ELSE {NotAsked} :
              /\ call' = [op |-> "exec", entry |-> entry]
              /\ out' = [NoOutcome EXCEPT !.ret = "lines", !.log = KillLines(entry, sh)]
    /\ pc' = "done"
    /\ UNCHANGED <<envVars, terminals, healthVars>>

InitShell == InitEnv({"linux", "darwin"}, {1}, {Proc(CmdZ, DirX, 0)}, {Proc(CmdA, DirP, 0)})

ExecShell == ExecOf(ShellEntries)

NextShell == ExecShell \/ Settle

SpecShell == InitShell /\ [][NextShell]_vars

(***************************************************************************)
(* SpecHealth: the health checker's polls, interleaved with reloads of the *)
(* store, additions and removals, while the servers come and go.  An entry *)
(* is known by its name (with its URL); ids are drawn fresh, up to MaxIds. *)
(***************************************************************************)
MaxIds == 3

MaxRuns == 2

HealthNames == {"web", "api"}

Configs == { <<>>, <<"web">>, <<"web", "api">> }

\* Map.get
MapGet(map, id) == IF id \in DOMAIN map THEN map[id] ELSE "undefined"

\* Map.set
MapSet(map, id, v) == [i \in DOMAIN map \cup {id} |-> IF i = id THEN v ELSE map[i]]

\* the status of the entry of that name in a store, "undefined" without one
StatusIn(store, name) ==
    IF \E i \in DOMAIN store : store[i].name = name
    THEN store[CHOOSE i \in DOMAIN store : store[i].name = name].status
    ELSE "undefined"

\* ServerStore.reload
reload(store, persisted, first) ==
    [i \in 1..Len(persisted) |->
        [id |-> first + i - 1, name |-> persisted[i],
         status |-> IF StatusIn(store, persisted[i]) = "undefined" THEN "unknown"
                    ELSE StatusIn(store, persisted[i])]]

\* ServerStore.getById
getById(store, id) == {store[i] : i \in {j \in DOMAIN store : store[j].id = id}}

\* ServerStore.updateStatus
updateStatus(store, id, status) ==
    [i \in DOMAIN store |-> IF store[i].id = id THEN [store[i] EXCEPT !.status = status]
                            ELSE store[i]]

\* persist: the entries without id and status
Persisted(store) == [i \in DOMAIN store |-> store[i].name]

\* onDidChangeConfiguration for quickServe.servers: settings.json was edited,
\* or a persist of the store has written it
OnDidChangeConfiguration ==
    /\ \E persisted \in Configs \cup {config} :
          /\ nextId + Len(persisted) - 1 <= MaxIds
          /\ config' = persisted
          /\ servers' = reload(servers, persisted, nextId)
          /\ nextId' = nextId + Len(persisted)
    /\ warning' = NoWarning
    /\ UNCHANGED <<envVars, timerVars, shown, terminals, pc, call, out, previousStatuses, pending, reachable>>

\* ServerStore.add
AddServer ==
    /\ nextId <= MaxIds
    /\ \E name \in HealthNames :
          /\ \A i \in DOMAIN servers : servers[i].name # name
          /\ servers' = Append(servers, [id |-> nextId, name |-> name, status |-> "unknown"])
    /\ config' = Persisted(servers')
    /\ nextId' = nextId + 1
    /\ warning' = NoWarning
    /\ UNCHANGED <<envVars, timerVars, shown, terminals, pc, call, out, previousStatuses, pending, reachable>>

\* ServerStore.remove
RemoveServer ==
    /\ \E i \in DOMAIN servers :
          servers' = SubSeq(servers, 1, i - 1) \o SubSeq(servers, i + 1, Len(servers))
    /\ config' = Persisted(servers')
    /\ warning' = NoWarning
    /\ UNCHANGED <<envVars, timerVars, shown, terminals, pc, call, out, nextId, previousStatuses, pending, reachable>>

\* the checkAll runs with a ping still pending
RunsInFlight == {one.run : one \in pending}

\* room for one more run
MayPoll == servers = <<>> \/ Cardinality(RunsInFlight) < MaxRuns

\* HealthChecker.checkAll up to the pings: each checkOne has read its previous status
Polled ==
    pending \cup
        { [run |-> CHOOSE r \in 1..MaxRuns : r \notin RunsInFlight,
           id |-> servers[i].id, name |-> servers[i].name,
           prevStatus |-> MapGet(previousStatuses, servers[i].id)]
          : i \in DOMAIN servers }

\* checkAll called by a command: refresh, or the end of add
CheckAll ==
    /\ MayPoll
    /\ servers # <<>>
    /\ pending' = Polled
    /\ warning' = NoWarning
    /\ UNCHANGED <<envVars, timerVars, shown, terminals, pc, call, out, servers, config, nextId,
                   previousStatuses, reachable>>

\* HealthChecker.ping
ping(name) == IF name \in reachable THEN "up" ELSE "down"

\* HealthChecker.checkOne from the answer of its ping
PingResolved ==
    /\ \E one \in pending :
          /\ servers' = updateStatus(servers, one.id, ping(one.name))
          /\ warning' = IF one.prevStatus = "up" /\ ping(one.name) = "down"
                        THEN IF getById(servers', one.id) # {}
                             THEN The(getById(servers', one.id)).name
                             ELSE "Unknown"
                        ELSE NoWarning
          /\ shown' = IF one.prevStatus = "up" /\ ping(one.name) = "down"
                      THEN [shown EXCEPT ![one.name] = @ + 1]
                      ELSE shown
          /\ previousStatuses' = MapSet(previousStatuses, one.id, ping(one.name))
          /\ pending' = pending \ {one}
    /\ UNCHANGED <<envVars, timerVars, terminals, pc, call, out, config, nextId, reachable>>

\* a server starts or stops answering
ServerFlips ==
    /\ \E name \in HealthNames :
          /\ reachable' = IF name \in reachable THEN reachable \ {name}
                          ELSE reachable \cup {name}
          /\ shown' = [shown EXCEPT ![name] = 0]
    /\ warning' = NoWarning
    /\ UNCHANGED <<envVars, timerVars, terminals, pc, call, out, servers, config, nextId,
                   previousStatuses, pending>>

\* after activation: the deferred reload has loaded the persisted entries
InitHealth ==
    /\ platform = "linux"
    /\ ownPid = 2
    /\ ppidOf = <<0, 1>>
    /\ procCmd = << <<"i", "n", "i", "t">>, CmdZ >>
    /\ procCwd = << <<"/">>, DirX >>
    /\ procPort = <<0, 0>>
    /\ terminals = {}
    /\ pc = "idle"
    /\ call = NoCall
    /\ out = NoOutcome
    /\ config \in Configs
    /\ servers = reload(<<>>, config, 1)
    /\ nextId = Len(config) + 1
    /\ previousStatuses = <<>>
    /\ pending = {}
    /\ reachable \in SUBSET HealthNames
    /\ warning = NoWarning
    /\ intervalId = NoTimer
    /\ timers = {}
    /\ shown = NoneShown

NextHealth ==
    \/ OnDidChangeConfiguration
    \/ AddServer
    \/ RemoveServer
    \/ CheckAll
    \/ PingResolved
    \/ ServerFlips

SpecHealth == InitHealth /\ [][NextHealth]_vars

(***************************************************************************)
(* SpecSafe: kill over ancestor chains of every depth up to MaxDepth, the  *)
(* tool and its ancestors matching the pattern or not, the parent lookup   *)
(* failing at any hop, the child lookups of getDescendants answering.      *)
(***************************************************************************)
SafeEntries == { Entry(c, u) : c \in {CmdA, CmdAB}, u \in {Url("http", 3000), Url("malformed", None)} }

SafeFailures == { NoFailure, [NoFailure EXCEPT !.psOk = 0], [NoFailure EXCEPT !.psOk = 1] }

InitSafe ==
    InitEnv({"linux", "darwin"}, 0..MaxDepth, ToolProcs,
            { Proc(CmdA, DirP, 3000), Proc(CmdB, DirP, 0), Proc(CmdZ, DirX, 3000) })

KillSafe == KillOf(SafeEntries, SafeFailures)

NextSafe == KillSafe \/ Settle

SpecSafe == InitSafe /\ [][NextSafe]_vars

(***************************************************************************)
(* SpecHang: kill waiting on one of its OS invocations, which answers or   *)
(* never does.  exec ends a child only when it was given a timeout; the    *)
(* call then fails like any failing utility.  The event loop runs every    *)
(* callback that is ready, whence the weak fairness of SpecHangFair.       *)
(***************************************************************************)
\* the timeout option of the execAsync call of a utility, None without one
ExecTimeout(util) == IF util \in {"type", "which"} THEN 3000 ELSE None

\* the utilities a kill invokes, read off what it did
Invoked(entry, k, sh) ==
    {k.ops[i].op : i \in {j \in DOMAIN k.ops : k.ops[j].op # "safe"}}
        \cup (IF \E i \in DOMAIN k.ops : k.ops[i].op = "safe" THEN {"ps"} ELSE {})
        \cup (IF \E i \in DOMAIN k.ops :
                    k.ops[i].op = "safe" /\ k.ops[i].pids \ k.ops[i].own # {}
              THEN {"pgrep -P"} ELSE {})
        \cup (IF Truthy(k.cwd) /\ \E i \in DOMAIN k.ops :
                    k.ops[i].op = "pgrep" /\ k.ops[i].pids # {}
              THEN {"cwd"} ELSE {})
        \cup (IF ShellAsked(entry.startCommand) THEN {"type"} ELSE {})
        \cup (IF sh.type = "function" THEN {"which"} ELSE {})

HangEntries == { Entry(c, Url("http", 3000)) : c \in {CmdX, CdTo(DirP) \o CmdA} }

\* what kill returns once the awaited invocation has settled: by its answer,
\* or by the failure exec reports when the timeout has ended the child
Settled(entry, sh, util, hangs) ==
    IF ~hangs THEN kill(entry, NoFailure, sh)
    ELSE IF util = "type" THEN kill(entry, NoFailure, Shell("error", <<>>, <<>>, FALSE))
    ELSE kill(entry, NoFailure, [sh EXCEPT !.whichFails = TRUE])

\* kill(entry) up to the await of one of its invocations
KillAwaits ==
    /\ pc = "idle"
    /\ \E entry \in HangEntries :
          \E sh \in IF ShellAsked(entry.startCommand) THEN ShellAnswers ELSE {NotAsked} :
              \E util \in Invoked(entry, kill(entry, NoFailure, sh), sh), hangs \in BOOLEAN :
                  call' = [op |-> "kill", entry |-> entry, sh |-> sh,
                           awaiting |-> util, hangs |-> hangs,
                           settled |-> Settled(entry, sh, util, hangs)]
    /\ pc' = "awaiting"
    /\ UNCHANGED <<envVars, terminals, out, healthVars>>

\* the invocation answers and kill runs to its end
ExecAnswers ==
    /\ pc = "awaiting"
    /\ ~call.hangs
    /\ out' = call.settled
    /\ pc' = "done"
    /\ UNCHANGED <<envVars, terminals, call, healthVars>>

\* the timeout of the invocation elapses: exec ends the child and rejects
ExecTimesOut ==
    /\ pc = "awaiting"
    /\ call.hangs
    /\ ExecTimeout(call.awaiting) # None
    /\ out' = call.settled
    /\ pc' = "done"
    /\ UNCHANGED <<envVars, terminals, call, healthVars>>

InitHang ==
    InitEnv(Platforms, {1}, {Proc(CmdZ, DirX, 0)},
            { Proc(CmdA, DirP, 3000), Proc(CmdZ, DirX, 0) })

NextHang == KillAwaits \/ ExecAnswers \/ ExecTimesOut \/ Settle

SpecHang == InitHang /\ [][NextHang]_vars

SpecHangFair == SpecHang /\ WF_vars(ExecAnswers) /\ WF_vars(ExecTimesOut) /\ WF_vars(Settle)

(***************************************************************************)
(* SpecWalk: getOwnPids over every parent relation on MaxPids processes,   *)
(* corrupted ones included: cycles, a process that is its own parent, a    *)
(* parent that is missing (0).                                             *)
(***************************************************************************)
MaxPids == 4

WalkFailures == { [NoFailure EXCEPT !.psOk = n] : n \in {0, 1, 2, MaxHops} }

InitWalk ==
    /\ platform = "linux"
    /\ ppidOf \in [1..MaxPids -> 0..MaxPids]
    /\ ownPid \in 2..MaxPids
    /\ procCmd = [p \in 1..MaxPids |-> CmdZ]
    /\ procCwd = [p \in 1..MaxPids |-> DirX]
    /\ procPort = [p \in 1..MaxPids |-> 0]
    /\ terminals = {}
    /\ pc = "idle"
    /\ call = NoCall
    /\ out = NoOutcome
    /\ HealthOff

\* ProcessKiller.getOwnPids, as killSafePids calls it
OwnPidsWalk ==
    /\ pc = "idle"
    /\ \E fx \in WalkFailures :
          /\ call' = [op |-> "getOwnPids", entry |-> NoCall.entry, fx |-> fx]
          /\ out' = The({ [NoOutcome EXCEPT !.psLookups = o.lookups,
                                            !.ops = <<SafeEvent({}, o.own, {})>>]
                          : o \in {getOwnPids(fx)} })
    /\ pc' = "done"
    /\ UNCHANGED <<envVars, terminals, healthVars>>

NextWalk == OwnPidsWalk \/ Settle

SpecWalk == InitWalk /\ [][NextWalk]_vars

(***************************************************************************)
(* SpecDescend: the recursion of getDescendants, one call or return at a   *)
(* step, over every parent relation on MaxPids processes.  call.stack      *)
(* holds the calls in progress, each with the children it has still to     *)
(* visit; the model follows the recursion MaxPids + 1 calls deep.          *)
(***************************************************************************)
\* pgrep -P pid
Children(pid) == {q \in Pids : ppidOf[q] = pid}

Frame(pid) == [pid |-> pid, todo |-> Children(pid)]

\* the first pid of the output not yet visited
NextChild(frame) == CHOOSE c \in frame.todo : \A d \in frame.todo : c <= d

\* getDescendants(pid) is called for a candidate
DescendStart ==
    /\ pc = "idle"
    /\ \E pid \in Pids :
          call' = [op |-> "getDescendants", entry |-> NoCall.entry,
                   stack |-> <<Frame(pid)>>, all |-> {}]
    /\ pc' = "descending"
    /\ UNCHANGED <<envVars, terminals, out, healthVars>>

\* the innermost call pushes its next child and calls itself for it
DescendCall ==
    /\ pc = "descending"
    /\ Len(call.stack) <= MaxPids
    /\ call.stack[Len(call.stack)].todo # {}
    /\ call' = The({ [call EXCEPT
                        !.all = @ \cup {child},
                        !.stack = Append([@ EXCEPT ![Len(@)].todo = @ \ {child}],
                                         Frame(child))]
                     : child \in {NextChild(call.stack[Len(call.stack)])} })
    /\ UNCHANGED <<envVars, terminals, pc, out, healthVars>>

\* the innermost call has visited its children and returns
DescendReturn ==
    /\ pc = "descending"
    /\ call.stack[Len(call.stack)].todo = {}
    /\ call' = [call EXCEPT !.stack = SubSeq(@, 1, Len(@) - 1)]
    /\ pc' = IF Len(call.stack) = 1 THEN "done" ELSE "descending"
    /\ out' = IF Len(call.stack) = 1
              THEN [NoOutcome EXCEPT !.ops = <<SafeEvent({}, {}, call.all)>>]
              ELSE out
    /\ UNCHANGED <<envVars, terminals, healthVars>>

NextDescend == DescendStart \/ DescendCall \/ DescendReturn \/ Settle

SpecDescend == InitWalk /\ [][NextDescend]_vars

(***************************************************************************)
(* SpecPair: two kill calls for different entries, interleaved at their    *)
(* awaits.  call.run holds the locals of each call: where it stands, its   *)
(* candidates (pids), its exclusion set (ownPids), its targets (allPids).  *)
(* The output channel is the one object the calls share.  The entries have *)
(* no usable port, so each call enters killSafePids at most once.          *)
(***************************************************************************)
Callers == {1, 2}

PairEntries ==
    [Callers -> { Entry(c, Url("malformed", None)) : c \in {CmdA, CmdB} }]

NoAnswer == Shell("other", <<>>, <<>>, FALSE)

\* the killSafePids call of a kill, none if it finds no candidate
SafeCallOf(entry) ==
    The({ {k.ops[i] : i \in {j \in DOMAIN k.ops : k.ops[j].op = "safe"}}
          : k \in {kill(entry, NoFailure, NoAnswer)} })

Locals(entry) ==
    [entry |-> entry, at |-> "search", pids |-> {}, ownPids |-> {}, allPids |-> {},
     signaled |-> {}, ret |-> "none"]

\* killByCommand has its candidates
Searched2(run, c) ==
    The({ IF safe = {}
          THEN [run EXCEPT ![c].at = "done", ![c].ret = "false"]
          ELSE [run EXCEPT ![c].at = "exclude", ![c].pids = The(safe).pids]
          : safe \in {SafeCallOf(run[c].entry)} })

\* const ownPids = await this.getOwnPids()
Excludes(run, c) ==
    [run EXCEPT ![c].at = "expand", ![c].ownPids = getOwnPids(NoFailure).own]

\* allPids, filled with shared targets: one set for all calls
ExpandsIntoSharedSet(run, c) ==
    The({ [d \in DOMAIN run |->
              IF d = c \/ run[d].at = "signal"
              THEN [run[d] EXCEPT !.at = "signal", !.allPids = run[d].allPids \cup mine]
              ELSE [run[d] EXCEPT !.allPids = run[d].allPids \cup mine]]
          : mine \in { UNION { IF pid \notin run[c].ownPids
                               THEN {pid} \cup (getDescendants(pid, NoFailure) \ run[c].ownPids)
                               ELSE {} : pid \in run[c].pids } } })

\* const allPids = new Set(); the loop over pids with getDescendants
Expands(run, c) ==
    [run EXCEPT ![c].at = "signal",
                ![c].allPids =
                    UNION { IF pid \notin run[c].ownPids
                            THEN {pid} \cup (getDescendants(pid, NoFailure)
                                                \ run[c].ownPids)
                            ELSE {} : pid \in run[c].pids }]

\* the kill command, or the refusal
Signals(run, c) ==
    [run EXCEPT ![c].at = "done",
                ![c].signaled = run[c].allPids,
                ![c].ret = IF run[c].allPids # {} THEN "true" ELSE "false"]

PairStart ==
    /\ pc = "idle"
    /\ \E entries \in PairEntries :
          /\ entries[1].startCommand # entries[2].startCommand
          /\ call' = [op |-> "kills", entry |-> NoCall.entry,
                      run |-> [c \in Callers |-> Locals(entries[c])]]
    /\ pc' = "pair"
    /\ UNCHANGED <<envVars, terminals, out, healthVars>>

\* one call runs from an await to its next
PairStep ==
    /\ pc = "pair"
    /\ \E c \in Callers :
          /\ call.run[c].at # "done"
          /\ call' = [call EXCEPT !.run =
                        IF call.run[c].at = "search" THEN Searched2(call.run, c)
                        ELSE IF call.run[c].at = "exclude" THEN Excludes(call.run, c)
                        ELSE IF call.run[c].at = "expand" THEN Expands(call.run, c)
                        ELSE Signals(call.run, c)]
          /\ out' = [out EXCEPT !.log = Append(@, <<c, call.run[c].at>>)]
    /\ pc' = IF \A c \in Callers : call'.run[c].at = "done" THEN "done" ELSE "pair"
    /\ UNCHANGED <<envVars, terminals, healthVars>>

InitPair ==
    InitEnv({"linux"}, {1}, ToolProcs,
            { Proc(CmdA, DirP, 0), Proc(CmdB, DirP, 0), Proc(CmdZ, DirX, 0) })

NextPair == PairStart \/ PairStep \/ Settle

SpecPair == InitPair /\ [][NextPair]_vars

(***************************************************************************)
(* SpecUrl: kill for entries whose command matches no process, under URLs  *)
(* of every scheme and written port, with listeners on the ports.          *)
(***************************************************************************)
UrlSchemes == {"http", "https", "ftp", "other", "malformed"}

UrlPorts == {None, 0, 21, 80, 443, 3000}

UrlEntries ==
    { Entry(CdTo(DirP) \o CmdA, Url(s, IF s = "malformed" THEN None ELSE p))
      : s \in UrlSchemes, p \in UrlPorts }

InitUrl ==
    InitEnv(Platforms, {1}, {Proc(CmdZ, DirX, 0)},
            { Proc(CmdB, DirP, 21), Proc(CmdB, DirP, 80), Proc(CmdB, DirP, 3000) })

KillUrl == KillOf(UrlEntries, {NoFailure})

NextUrl == KillUrl \/ Settle

SpecUrl == InitUrl /\ [][NextUrl]_vars

(***************************************************************************)
(* SpecBlank: kill for start commands the input boxes accept (any string   *)
(* that is not empty) in which no command is written: blanks, or a cd      *)
(* prefix followed by blanks.                                              *)
(***************************************************************************)
BlankCommands ==
    { Blank, Blank \o Blank, CdTo(DirP), CdTo(DirP) \o Blank, CdTo(DirP) \o CmdA }

BlankEntries == { Entry(c, u) : c \in BlankCommands, u \in {Url("http", 3000), Url("malformed", None)} }

InitBlank ==
    InitEnv({"linux", "darwin", "win32"}, {1}, {Proc(CmdZ, DirX, 0)},
            { Proc(CmdAB, DirP, 0), Proc(CmdB, DirP, 3000), Proc(CmdZ, DirX, 0) })

KillBlank == KillOf(BlankEntries, {NoFailure})

NextBlank == KillBlank \/ Settle

SpecBlank == InitBlank /\ [][NextBlank]_vars

(***************************************************************************)
(* SpecTimer: the health checker's polling timer.  start, restart and      *)
(* dispose are called in any order while the set timers fire; at most      *)
(* MaxTimers timers are set at a time.                                     *)
(***************************************************************************)
MaxTimers == 3

\* setInterval: a timer that is not any timer already set
NewTimer(set) == CHOOSE t \in 1..(MaxTimers + 1) : t \notin set

\* HealthChecker.dispose on the timer fields
disposed(id, set) ==
    IF id # NoTimer THEN [intervalId |-> NoTimer, timers |-> set \ {id}]
    ELSE [intervalId |-> id, timers |-> set]

\* HealthChecker.start on the timer fields
started(id, set) ==
    [intervalId |-> NewTimer(set), timers |-> set \cup {NewTimer(set)}]

\* HealthChecker.start
HealthStart ==
    /\ MayPoll
    /\ Cardinality(timers) < MaxTimers
    /\ pending' = IF servers = <<>> THEN pending ELSE Polled
    /\ warning' = NoWarning
    /\ intervalId' = started(intervalId, timers).intervalId
    /\ timers' = started(intervalId, timers).timers
    /\ call' = [op |-> "start", entry |-> NoCall.entry]
    /\ UNCHANGED <<envVars, shown, terminals, pc, out, servers, config, nextId,
                   previousStatuses, reachable>>

\* HealthChecker.restart
HealthRestart ==
    /\ MayPoll
    /\ Cardinality(disposed(intervalId, timers).timers) < MaxTimers
    /\ pending' = IF servers = <<>> THEN pending ELSE Polled
    /\ warning' = NoWarning
    /\ LET off == disposed(intervalId, timers)
       IN  /\ intervalId' = started(off.intervalId, off.timers).intervalId
           /\ timers' = started(off.intervalId, off.timers).timers
    /\ call' = [op |-> "restart", entry |-> NoCall.entry]
    /\ UNCHANGED <<envVars, shown, terminals, pc, out, servers, config, nextId,
                   previousStatuses, reachable>>

\* HealthChecker.dispose
HealthDispose ==
    /\ intervalId' = disposed(intervalId, timers).intervalId
    /\ timers' = disposed(intervalId, timers).timers
    /\ call' = [op |-> "dispose", entry |-> NoCall.entry]
    /\ warning' = NoWarning
    /\ UNCHANGED <<envVars, shown, terminals, pc, out, servers, config, nextId,
                   previousStatuses, pending, reachable>>

\* a timer that is set fires: its callback runs checkAll
IntervalFires ==
    /\ timers # {}
    /\ CheckAll

InitTimer ==
    /\ InitHealth
    /\ config = <<"web">>

NextTimer ==
    \/ HealthStart
    \/ HealthRestart
    \/ HealthDispose
    \/ IntervalFires
    \/ PingResolved
    \/ ServerFlips

SpecTimer == InitTimer /\ [][NextTimer]_vars

(***************************************************************************)
(* SpecGroup: the sidebar tree over a store whose entries carry group      *)
(* labels.  Labels are set by editing the group attribute, by the AI       *)
(* grouping, and cleared; after every change the tree is asked for its     *)
(* roots and for the children of its group nodes.                          *)
(***************************************************************************)
MaxServers == 3

\* ServerEntry.group absent
NoGroup == "undefined"

\* the labels an edit or the AI grouping can give
GroupLabels == {"", "General", "Api", "Web"}

\* !s.group
Falsy(group) == group = NoGroup \/ group = ""

\* String.localeCompare on the labels, as a rank
LocaleRank(label) ==
    CASE label = "" -> 0 [] label = "Api" -> 1 [] label = "General" -> 2 [] OTHER -> 3

\* the comparator of getChildren: a negative result
SortsBefore(a, b) ==
    IF a = "General" THEN FALSE
    ELSE IF b = "General" THEN TRUE
    ELSE LocaleRank(a) < LocaleRank(b)

\* [...groups].sort(comparator)
RECURSIVE SortedLabels(_)
SortedLabels(set) ==
    IF set = {} THEN <<>>
    ELSE LET first == CHOOSE a \in set : \A b \in set \ {a} : SortsBefore(a, b)
         IN  <<first>> \o SortedLabels(set \ {first})

\* the filter of getChildren and getTreeItem for a group node
InGroup(label, server) ==
    IF label = "General" THEN Falsy(server.group) ELSE server.group = label

\* ServerTreeProvider.getChildren(undefined)
getChildrenOfRoot(all) ==
    IF ~(\E i \in DOMAIN all : ~Falsy(all[i].group))
    THEN all
    ELSE LET groups == { IF all[i].group = NoGroup THEN "General" ELSE all[i].group
                         : i \in DOMAIN all }
             sorted == SortedLabels(groups)
         IN  [i \in DOMAIN sorted |-> [type |-> "group", label |-> sorted[i]]]

\* ServerTreeProvider.getChildren(group node)
getChildrenOfGroup(all, label) ==
    SelectSeq(all, LAMBDA server : InGroup(label, server))

\* the count in the description of a group node's tree item
groupCount(all, label) ==
    Cardinality({i \in DOMAIN all : InGroup(label, all[i])})

\* no tree rendered since the last refresh
NoTree == [ret |-> "refresh", roots |-> <<>>, children |-> <<>>, counts |-> <<>>]

\* ServerStore.update with a group patch, then the refresh
UpdateGroup ==
    /\ \E i \in DOMAIN servers, group \in GroupLabels \cup {NoGroup} :
          servers' = [servers EXCEPT ![i].group = IF group = "" THEN NoGroup ELSE group]
    /\ out' = NoTree
    /\ pc' = "idle"
    /\ UNCHANGED <<envVars, timerVars, shown, terminals, call, config, nextId,
                   previousStatuses, pending, reachable, warning>>

\* ServerStore.updateGroups with the AI's assignments, then the refresh
UpdateGroups ==
    /\ \E ids \in SUBSET DOMAIN servers :
          /\ ids # {}
          /\ \E assignments \in [ids -> GroupLabels] :
                servers' = [i \in DOMAIN servers |->
                               IF i \in ids
                               THEN [servers[i] EXCEPT !.group = assignments[i]]
                               ELSE servers[i]]
    /\ out' = NoTree
    /\ pc' = "idle"
    /\ UNCHANGED <<envVars, timerVars, shown, terminals, call, config, nextId,
                   previousStatuses, pending, reachable, warning>>

\* ServerStore.clearAllGroups, then the refresh
ClearAllGroups ==
    /\ servers' = [i \in DOMAIN servers |-> [servers[i] EXCEPT !.group = NoGroup]]
    /\ out' = NoTree
    /\ pc' = "idle"
    /\ UNCHANGED <<envVars, timerVars, shown, terminals, call, config, nextId,
                   previousStatuses, pending, reachable, warning>>

\* the view asks for the roots
GetRoots ==
    /\ pc = "idle"
    /\ out' = [NoTree EXCEPT !.ret = "tree", !.roots = getChildrenOfRoot(servers)]
    /\ pc' = "roots"
    /\ UNCHANGED <<envVars, healthVars, terminals, call>>

\* the view renders a group node and asks for its children
ExpandGroup ==
    /\ pc = "roots"
    /\ \E i \in DOMAIN out.roots :
          /\ "type" \in DOMAIN out.roots[i]
          /\ out.roots[i].label \notin DOMAIN out.children
          /\ out' = [out EXCEPT
                       !.children = MapSet(out.children, out.roots[i].label,
                                           getChildrenOfGroup(servers, out.roots[i].label)),
                       !.counts = MapSet(out.counts, out.roots[i].label,
                                         groupCount(servers, out.roots[i].label))]
    /\ UNCHANGED <<envVars, healthVars, terminals, pc, call>>

InitGroup ==
    /\ platform = "linux"
    /\ ownPid = 2
    /\ ppidOf = <<0, 1>>
    /\ procCmd = << <<"i", "n", "i", "t">>, CmdZ >>
    /\ procCwd = << <<"/">>, DirX >>
    /\ procPort = <<0, 0>>
    /\ terminals = {}
    /\ pc = "idle"
    /\ call = NoCall
    /\ out = NoTree
    /\ \E n \in 1..MaxServers :
          /\ servers = [i \in 1..n |-> [id |-> i, name |-> "web", status |-> "unknown",
                                        group |-> NoGroup]]
          /\ nextId = n + 1
    /\ config = <<>>
    /\ previousStatuses = <<>>
    /\ pending = {}
    /\ reachable = {}
    /\ warning = NoWarning
    /\ intervalId = NoTimer
    /\ timers = {}
    /\ shown = NoneShown

NextGroup ==
    \/ UpdateGroup
    \/ UpdateGroups
    \/ ClearAllGroups
    \/ GetRoots
    \/ ExpandGroup

SpecGroup == InitGroup /\ [][NextGroup]_vars

(***************************************************************************)
(* What an operation did, read off its trace.                              *)
(***************************************************************************)
KillDone == pc = "done" /\ call.op = "kill"

RestartDone == pc = "done" /\ call.op = "restart"

EventsOf(kinds) == {i \in DOMAIN out.ops : out.ops[i].op \in kinds}

\* every pid named in a termination command
Signaled == UNION {out.ops[i].pids : i \in EventsOf({"kill", "taskkill"})}

\* every pid a pattern search or a port lookup reported
Matched == UNION {out.ops[i].pids : i \in EventsOf({"pgrep", "lsof", "netstat"})}

\* the exclusion sets computed, and their union
Excluded == UNION {out.ops[i].own : i \in EventsOf({"safe"})}

\* the event happens while the command-pattern strategy runs
ViaPattern(i) == \A j \in 1..i : out.ops[j].op \notin {"lsof", "netstat"}

(***************************************************************************)
(* C1.  kill(entry) never throws: whatever the OS invocations do, it       *)
(* resolves to true or false.                                              *)
(* Fails: killSafePids awaits the kill command outside any try block, and  *)
(* neither killByCommand nor kill catches its rejection.                   *)
(***************************************************************************)
C1_KillNeverThrows == KillDone => out.ret \in {"true", "false"}

(***************************************************************************)
(* C2.  The tool's own process id is in no set of pids sent a termination  *)
(* signal, by kill or by the restart command, on any platform.             *)
(* Fails: the netstat/taskkill branch filters nothing.                     *)
(***************************************************************************)
C2_OwnPidNeverSignaled == ownPid \notin Signaled

(***************************************************************************)
(* C3.  The exclusion set holds the tool and every ancestor below init, so *)
(* no ancestor of the tool is signaled, whether or not ps succeeds.        *)
(* Fails: a failing ps ends the walk and leaves the ancestors above the    *)
(* parent out of the set.                                                  *)
(***************************************************************************)
C3_NoAncestorSignaled ==
    /\ AncestorsOf(ownPid) \cap Signaled = {}
    /\ \A i \in EventsOf({"safe"}) :
           out.ops[i].kept # {} => AncestorsOf(ownPid) \subseteq out.ops[i].own

C5_NoLookupOnPort80Or443 ==
    \A i \in EventsOf({"lsof", "netstat"}) : out.ops[i].port \notin {80, 443}

(***************************************************************************)
(* C6.  With a working-directory hint, a matched process survives the      *)
(* filter if and only if its working directory is the hint or lies below   *)
(* it; sharing a string prefix with the hint is not enough.                *)
(* Fails: the filter is startsWith.                                        *)
(***************************************************************************)
\* directory c is h or a subdirectory of h
Under(c, h) == c = h \/ StartsWith(c, h \o <<"/">>)

C6_CwdFilterIsDirectoryContainment ==
    (KillDone /\ Truthy(out.cwd)) =>
        \A i \in EventsOf({"pgrep"}) :
            ~out.ops[i].cwdFailed =>
                \A p \in out.ops[i].pids :
                    p \in out.ops[i].filtered <=> Under(procCwd[p], out.cwd)

(***************************************************************************)
(* C7.  With a working-directory hint, a pattern whose matches the filter  *)
(* eliminates altogether yields no candidates: none of its matches enters  *)
(* killSafePids, for the whole command and for every segment alike.        *)
(***************************************************************************)
\* the filter eliminated every match of the search
Eliminated(i) ==
    /\ out.ops[i].op = "pgrep"
    /\ out.ops[i].pids # {}
    /\ out.ops[i].filtered = {}

C7_EliminatedPatternYieldsNothing ==
    (KillDone /\ Truthy(out.cwd)) =>
        \A i \in DOMAIN out.ops :
            Eliminated(i) =>
                /\ out.ops[i].kept = {}
                /\ \A j \in EventsOf({"safe"}) :
                       ViaPattern(j) => out.ops[j].pids \cap out.ops[i].pids = {}

\* the whole command and both of its segments matched, all matches eliminated
C7_Witness ==
    /\ KillDone
    /\ Truthy(out.cwd)
    /\ Eliminated(1)
    /\ \E i, j \in DOMAIN out.ops : 1 < i /\ i < j /\ Eliminated(i) /\ Eliminated(j)
    /\ \A j \in EventsOf({"safe"}) : ~ViaPattern(j)

(***************************************************************************)
(* C8.  The command-pattern strategy stops at the first pattern that       *)
(* yields a match: the pids handed to killSafePids are the matches of that *)
(* pattern, and no later pattern is searched.                              *)
(* As stated it fails: once the whole command matches nothing, every       *)
(* segment is searched and the matches of all of them are handed over.     *)
(***************************************************************************)
PgrepEvents == EventsOf({"pgrep"})

\* the candidate sets the command-pattern strategy handed to killSafePids
PatternCandidates == {out.ops[j].pids : j \in {k \in EventsOf({"safe"}) : ViaPattern(k)}}

C8_StopsAtFirstMatchingPattern ==
    KillDone =>
        \A i \in PgrepEvents :
            (out.ops[i].kept # {} /\ \A k \in PgrepEvents : k < i => out.ops[k].kept = {})
                => /\ \A k \in PgrepEvents : k <= i
                   /\ PatternCandidates = {out.ops[i].kept}

\* C8 as amended: the whole command is searched first and, if it matches,
\* its matches alone are handed to killSafePids and no segment is searched;
\* otherwise every segment is searched and the union of the matches of all
\* segments is handed over (nothing when no segment matches).
C8_WholeFirstThenAllSegments ==
    (KillDone /\ platform # "win32") =>
        LET n     == Cardinality(PgrepEvents)
            union == UNION {out.ops[i].kept : i \in PgrepEvents}
        IN  /\ PgrepEvents = 1..n /\ n >= 1
            /\ out.ops[1].pattern = out.cmd
            /\ out.ops[1].kept # {} =>
                   n = 1 /\ PatternCandidates = {out.ops[1].kept}
            /\ out.ops[1].kept = {} =>
                   /\ n = 1 + Len(splitCommandSegments(out.cmd))
                   /\ PatternCandidates = IF union = {} THEN {} ELSE {union}

\* two segments matched different processes and both sets were handed over
C8_Witness ==
    /\ KillDone
    /\ Cardinality(PgrepEvents) = 3
    /\ out.ops[2].kept # {} /\ out.ops[3].kept # {}
    /\ out.ops[2].kept \cap out.ops[3].kept = {}
    /\ PatternCandidates = {out.ops[2].kept \cup out.ops[3].kept}

(***************************************************************************)
(* C9.  kill tries the command-pattern strategy first (where it applies:   *)
(* off Windows) and the port strategy whenever the pattern strategy issued *)
(* no termination command (no match, every match excluded, pgrep failed)   *)
(* and the URL has a usable port other than 80 and 443; it returns false   *)
(* only after every applicable strategy was tried and none succeeded, and  *)
(* true as soon as one succeeds.                                           *)
(***************************************************************************)
\* the port the URL names: as written, else the default of http and https
WrittenPort(url) ==
    IF url.scheme = "malformed" THEN None
    ELSE IF url.port # None THEN url.port
    ELSE IF url.scheme = "https" THEN 443
    ELSE IF url.scheme = "http" THEN 80
    ELSE None

PortEligible(url) == WrittenPort(url) \notin {None, 0, 80, 443}

PortEvents == EventsOf({"lsof", "netstat"})

\* the termination commands the command-pattern strategy issued
PatternKills == {i \in EventsOf({"kill"}) : ViaPattern(i)}

C9_PatternFirstThenPort ==
    KillDone =>
        /\ platform # "win32" => 1 \in PgrepEvents
        /\ \A i \in PgrepEvents, j \in PortEvents : i < j
        /\ (PatternKills = {} /\ PortEligible(call.entry.url)) => PortEvents # {}
        /\ PortEvents # {} => (PatternKills = {} /\ PortEligible(call.entry.url))
        /\ out.ret = "false" =>
               /\ \A i \in EventsOf({"kill", "taskkill"}) : out.ops[i].failed
               /\ platform # "win32" => PgrepEvents # {}
               /\ PortEligible(call.entry.url) => PortEvents # {}
        /\ (\E i \in PatternKills : ~out.ops[i].failed) =>
               (out.ret = "true" /\ PortEvents = {})
        /\ out.ret = "true" => out.ops[Len(out.ops)].op \in {"kill", "taskkill"}

\* every match of the pattern was excluded, then the port strategy killed
C9_Witness ==
    /\ KillDone
    /\ \E j \in EventsOf({"safe"}) : ViaPattern(j) /\ out.ops[j].kept = {}
    /\ PatternKills = {}
    /\ PortEvents # {}
    /\ out.ret = "true"

(***************************************************************************)
(* C10.  For a command of segments joined by && or ; the patterns searched *)
(* are, in order, the whole command and then the segments in reverse       *)
(* written order; a single segment gives the whole command only.  (The     *)
(* search ends after the whole command when that one matches.)             *)
(***************************************************************************)
Searched == [i \in 1..Cardinality(PgrepEvents) |-> out.ops[i].pattern]

C10_WholeThenSegmentsReversed ==
    KillDone =>
        \A segs \in SegLists : \A seps \in SepLists(segs) :
            (call.entry.startCommand = Build(segs, seps) /\ out.cmd = Build(segs, seps))
                => Searched = IF out.ops[1].kept # {} \/ Len(segs) = 1
                              THEN <<out.cmd>>
                              ELSE <<out.cmd>> \o Reverse(segs)

\* a command of three different segments, searched whole and then c, b, a
C10_Witness ==
    /\ KillDone
    /\ call.entry.startCommand = out.cmd
    /\ Len(Searched) = 4
    /\ Searched[2] # Searched[4]
    /\ out.ops[2].kept = {} /\ out.ops[4].kept # {}

(***************************************************************************)
(* C11.  For a start command written cd <dir> SEP <cmd> (SEP && or ;, the  *)
(* directory bare or in single or double quotes) parseStartCommand returns *)
(* <dir> without the quotes as cwd and <cmd> trimmed as cmd; for a start   *)
(* command without a cd prefix (and not a bare word the shell resolves) it *)
(* returns no cwd and the command unchanged.                               *)
(* Fails: \S+ is greedy, so a bare directory written right against ; runs  *)
(* on through the next separator: cd /p;a && b gives cwd /p;a and cmd b.   *)
(***************************************************************************)
C11_CdPrefixParsed ==
    KillDone =>
        /\ \A f \in CdForms :
               call.entry.startCommand = BuildCd(f) =>
                   out.cwd = f.d.dir /\ out.cmd = Trim(f.cmd)
        /\ ( /\ call.entry.startCommand \in PlainCommands
             /\ ~IsBareWord(call.entry.startCommand) \/ platform = "win32" ) =>
               out.cwd = Undef /\ out.cmd = call.entry.startCommand

(***************************************************************************)
(* C12.  For every non-empty start command at least one pattern is         *)
(* searched in the process table, whichever way the command was resolved   *)
(* (cd prefix, alias, function body, literal).                             *)
(* As stated it fails: on Windows kill skips the pattern strategy and      *)
(* searches no pattern at all.                                             *)
(***************************************************************************)
C12_SomePatternSearched ==
    (KillDone /\ call.entry.startCommand # <<>>) => PgrepEvents # {}

\* C12 as amended: off Windows, for every non-empty start command the
\* resolved command is searched, before anything else is done.
C12_ResolvedCommandSearched ==
    (KillDone /\ call.entry.startCommand # <<>> /\ platform # "win32") =>
        /\ 1 \in PgrepEvents
        /\ out.ops[1].pattern = out.cmd

\* a bare word resolved to the lines of a shell function, and searched
C12_Witness ==
    /\ KillDone
    /\ IsBareWord(call.entry.startCommand)
    /\ out.cmd # call.entry.startCommand
    /\ out.cwd = Undef
    /\ 1 \in PgrepEvents

(***************************************************************************)
(* C13.  A bare word that is an alias for cd /p && a, a URL with port 8443,*)
(* every process running a in a directory outside /p, and a listener on    *)
(* the port: the pattern strategy signals nothing, the port strategy kills *)
(* the listeners, and kill returns true.                                   *)
(* Fails: a process in /pq passes the startsWith test of the filter (C6)   *)
(* and the pattern strategy kills it.                                      *)
(***************************************************************************)
\* the alias was resolved, every process running a is outside /p, and the
\* port has a listener
AliasScenario ==
    /\ KillDone
    /\ out.cwd = DirP /\ out.cmd = CmdA
    /\ \A p \in Pids : Contains(procCmd[p], CmdA) => ~Under(procCwd[p], DirP)
    /\ Listeners(8443) # {}

C13_AliasFallsBackToPort ==
    AliasScenario =>
        /\ PatternKills = {}
        /\ Listeners(8443) \subseteq Signaled
        /\ out.ret = "true"

(***************************************************************************)
(* C14.  Start command cd /p && a, a URL with port 3000, and a process     *)
(* outside the tool's own chain that runs a in /p/s, a subdirectory of the *)
(* hint: the pattern strategy matches it, it is signaled together with its *)
(* descendants, the port strategy is not run, and kill returns true.       *)
(***************************************************************************)
OwnChain == {ownPid} \cup AncestorsOf(ownPid)

\* the processes of the scenario: running a in /p/s, outside the own chain
InSubdirectory ==
    {p \in Pids \ OwnChain : Contains(procCmd[p], CmdA) /\ procCwd[p] = DirPSub}

SubdirectoryScenario ==
    /\ KillDone
    /\ call.entry.startCommand = CdTo(DirP) \o CmdA
    /\ call.entry.url = Url("http", 3000)
    /\ InSubdirectory # {}
    /\ \A i \in DOMAIN out.ops : ~out.ops[i].failed /\ ~out.ops[i].cwdFailed

C14_SubdirectoryProcessKilled ==
    SubdirectoryScenario =>
        /\ out.cwd = DirP /\ out.cmd = CmdA
        /\ InSubdirectory \subseteq out.ops[1].kept
        /\ \A p \in InSubdirectory : {p} \cup DescendantsOf(p) \subseteq Signaled
        /\ PortEvents = {}
        /\ out.ret = "true"

\* the process in the subdirectory has a child, which matched nothing itself
C14_Witness ==
    /\ SubdirectoryScenario
    /\ \E p \in InSubdirectory :
           \E c \in DescendantsOf(p) : c \in Signaled /\ c \notin Matched

(***************************************************************************)
(* C15.  When no process matches the resolved command or any of its        *)
(* segments and the port strategy has nothing to kill (no port, port 80 or *)
(* 443, or nobody listening), kill signals no process and returns false,   *)
(* in the first call and in every later one.                               *)
(***************************************************************************)
\* the patterns of the resolved command that some process matches
LivePatterns ==
    LET patterns == <<out.cmd>> \o splitCommandSegments(out.cmd)
    IN  {i \in DOMAIN patterns : PgrepF(patterns[i]) # {}}

NothingToKill ==
    /\ KillDone
    /\ LivePatterns = {}
    /\ \/ ~PortEligible(call.entry.url)
       \/ Listeners(WrittenPort(call.entry.url)) = {}

ExecDone == pc = "done" /\ call.op = "exec"

UtilName(util) ==
    IF util = "pgrep" THEN <<"p", "g", "r", "e", "p">>
    ELSE IF util = "type" THEN <<"t", "y", "p", "e">>
    ELSE <<"w", "h", "i", "c", "h">>

ReachesAsOneArgument(x) ==
    LET outer == ShLex(x.line)
    IN  /\ ~outer.extra
        /\ IF x.util = "pgrep"
           THEN outer.words = <<UtilName("pgrep"), <<"-", "f">>, x.arg>>
           ELSE /\ Len(outer.words) = 3
                /\ outer.words[1] = ShellPath
                /\ outer.words[2] = <<"-", "i", "c">>
                /\ ~ShLex(outer.words[3]).extra
                /\ ShLex(outer.words[3]).words = <<UtilName(x.util), x.arg>>

C16_InterpolatedStringsAreLiteral ==
    ExecDone => \A i \in DOMAIN out.log : ReachesAsOneArgument(out.log[i])

(***************************************************************************)
(* C17.  Every down-transition is notified: whenever the status of an      *)
(* entry (known by its name and URL) goes from up, as an earlier poll saw  *)
(* it, to down, as a poll sees it now, the step shows the "is down"        *)
(* warning for that name, whatever reloads and store changes came between. *)
(***************************************************************************)
C17_EveryDownTransitionNotified ==
    [][\A name \in HealthNames :
          (StatusIn(servers, name) = "up" /\ StatusIn(servers', name) = "down")
              => warning' = name]_vars

(***************************************************************************)
(* C18.  For every candidate list handed to killSafePids and every process *)
(* tree, the set it signals is the candidates outside the exclusion set    *)
(* together with all their descendants, at any depth, less the exclusion   *)
(* set; a candidate outside the exclusion set that has no children and is  *)
(* the only candidate yields exactly its own pid.                          *)
(***************************************************************************)
SafeEvents == EventsOf({"safe"})

\* the candidates of a killSafePids call that are not excluded
FreeCandidates(e) == e.pids \ e.own

\* the pids named by the termination command that follows the call
SignaledBy(i) ==
    IF i + 1 \in EventsOf({"kill"}) THEN out.ops[i + 1].pids ELSE {}

C18_SignaledIsFilteredClosure ==
    KillDone =>
        \A i \in SafeEvents :
            /\ SignaledBy(i) =
                   (FreeCandidates(out.ops[i])
                       \cup UNION {DescendantsOf(c) : c \in FreeCandidates(out.ops[i])})
                   \ out.ops[i].own
            /\ \A c \in FreeCandidates(out.ops[i]) :
                   (out.ops[i].pids = {c} /\ DescendantsOf(c) = {}) => SignaledBy(i) = {c}

\* a candidate with an excluded descendant below which a process that is
\* no candidate itself is signaled
C18_Witness ==
    /\ KillDone
    /\ \E i \in SafeEvents : \E c \in FreeCandidates(out.ops[i]) :
          \E d \in DescendantsOf(c) \cap out.ops[i].own :
              \E g \in DescendantsOf(d) \ out.ops[i].pids : g \in SignaledBy(i)

(***************************************************************************)
(* C19.  killSafePids reports success exactly when the set it arrives at   *)
(* (candidates and descendants, less the exclusion set) is not empty, the  *)
(* termination command itself succeeding: it then issues exactly one       *)
(* termination command, which names every pid of the set.  When every      *)
(* candidate is excluded it issues no termination command, the strategy    *)
(* yields false, and it logs "All matched PIDs are in own process tree",   *)
(* a line that is logged in no other case; the line of a pattern search    *)
(* that matched nothing is not logged then.                                *)
(***************************************************************************)
LogLines == {out.log[i] : i \in DOMAIN out.log}

\* killSafePids call i was the last thing the operation did, its termination
\* command apart
Concludes(i) == \A j \in DOMAIN out.ops : j > i => (j = i + 1 /\ out.ops[j].op = "kill")

C19_SuccessIffOneBatchKill ==
    KillDone =>
        /\ \A i \in SafeEvents :
              IF out.ops[i].kept # {}
              THEN /\ i + 1 \in EventsOf({"kill"})
                   /\ out.ops[i + 1].pids = out.ops[i].kept
                   /\ Concludes(i)
                   /\ out.ret = "true" <=> ~out.ops[i + 1].failed
              ELSE /\ i + 1 \notin EventsOf({"kill", "taskkill"})
                   /\ Concludes(i) => out.ret = "false"
                   /\ ViaPattern(i) => "No process found matching command pattern" \notin LogLines
        /\ "All matched PIDs are in own process tree" \in LogLines
               <=> \E i \in SafeEvents : out.ops[i].kept = {}
        /\ (out.ret = "true" /\ platform # "win32") =>
               \E i \in SafeEvents : out.ops[i].kept # {}

\* the pattern strategy found only excluded processes and refused; the port
\* strategy then signaled several processes with one command
C19_Witness ==
    /\ KillDone
    /\ \E i, j \in SafeEvents :
          /\ i < j
          /\ out.ops[i].pids # {}
          /\ out.ops[i].kept = {}
          /\ Cardinality(out.ops[j].kept) >= 2
          /\ out.ret = "true"

(***************************************************************************)
(* C20.  Resolving a bare word never fails the kill.  When the shell query *)
(* fails or times out, when the shell reports neither an alias nor a       *)
(* function, when the body of the function cannot be read or no line of it *)
(* is left after the filters, the command kill works with is the word as   *)
(* written, without a working-directory hint: kill searches that word and  *)
(* returns true or false.                                                  *)
(***************************************************************************)
\* the lines of a function body that the filters leave
UsableLines(sh) ==
    SelectSeq(SeqFilterNonEmpty([i \in 1..Len(sh.body) |-> Trim(sh.body[i])]),
              LAMBDA l : ~skip(l) /\ ~setup(l))

\* the shell was asked about the word and gave resolveCommand nothing to use
Unresolved ==
    /\ KillDone
    /\ ShellAsked(call.entry.startCommand)
    /\ \/ call.sh.type \in {"error", "other"}
       \/ call.sh.type = "function" /\ (call.sh.whichFails \/ UsableLines(call.sh) = <<>>)

C20_UnresolvedWordUsedAsWritten ==
    Unresolved =>
        /\ out.cwd = Undef
        /\ out.cmd = call.entry.startCommand
        /\ 1 \in PgrepEvents
        /\ out.ops[1].pattern = call.entry.startCommand
        /\ out.ops[1].filtered = out.ops[1].pids
        /\ out.ret \in {"true", "false"}

\* a function whose body was read and holds nothing but a cd line
C20_Witness ==
    /\ Unresolved
    /\ call.sh.type = "function"
    /\ ~call.sh.whichFails
    /\ call.sh.body # <<>>
    /\ out.cmd = call.entry.startCommand
    /\ out.ops[1].pattern = call.entry.startCommand

(***************************************************************************)
(* C21.  Every OS invocation of kill has a timeout, so that kill returns   *)
(* in the end even when one of its invocations never answers: a kill that  *)
(* waits on an invocation leads to a kill that has returned.               *)
(***************************************************************************)
C21_KillEventuallyReturns == (pc = "awaiting") ~> (pc = "done")

(***************************************************************************)
(* C22.  The ancestor walk ends on every parent relation, a cyclic one     *)
(* included: it makes at most 20 parent lookups, and fewer only when a     *)
(* lookup fails or answers with pid 1 or with no parent; the exclusion set *)
(* is the tool, its parent and the ancestors the lookups before that       *)
(* answered with.                                                          *)
(***************************************************************************)
WalkDone == pc = "done" /\ call.op = "getOwnPids"

\* the process n parent links above p, 0 once a link is missing
RECURSIVE Hop(_, _)
Hop(p, n) ==
    IF n = 0 \/ p = 0 THEN p ELSE Hop(ppidOf[p], n - 1)

\* lookup n + 1 ends the walk: it fails, or it is made for a process whose
\* parent is init or missing
EndsAt(n) == n >= call.fx.psOk \/ Hop(ownPid, n + 1) <= 1

C22_WalkBoundedByTwentyLookups ==
    WalkDone =>
        /\ out.psLookups <= MaxHops
        /\ out.psLookups >= 1
        /\ \A n \in 0..(out.psLookups - 2) : ~EndsAt(n)
        /\ out.psLookups < MaxHops => EndsAt(out.psLookups - 1)
        /\ out.ops[1].own =
               {ownPid} \cup (IF ppidOf[ownPid] # 0 THEN {ppidOf[ownPid]} ELSE {})
                   \cup {Hop(ownPid, n) : n \in 1..(out.psLookups - 1)}
                   \cup (IF ~EndsAt(out.psLookups - 1)
                         THEN {Hop(ownPid, out.psLookups)} ELSE {})

\* a cycle through the tool: the walk is cut by the bound alone
C22_Witness ==
    /\ WalkDone
    /\ out.psLookups = MaxHops
    /\ \E n \in 2..MaxPids : Hop(ownPid, n) = ownPid
    /\ \A n \in 0..(MaxHops - 1) : ~EndsAt(n)

(***************************************************************************)
(* C23.  getDescendants bounds the depth of its recursion, on every child  *)
(* relation the process table may show, one with a cycle included: the     *)
(* calls in progress are never more than the processes of the table, no    *)
(* process being entered twice on one path.                                *)
(***************************************************************************)
C23_RecursionDepthBounded ==
    pc = "descending" =>
        /\ Len(call.stack) <= Cardinality(Pids)
        /\ \A i, j \in DOMAIN call.stack :
               call.stack[i].pid = call.stack[j].pid => i = j

(***************************************************************************)
(* C24.  Two kill calls for different entries, interleaved at their        *)
(* awaits, share nothing but the log: each signals its own candidates and  *)
(* their descendants less its own exclusion set, which is what the same    *)
(* kill signals when it runs alone; the candidates of a call are those of  *)
(* its own entry whatever the other call has done.                         *)
(***************************************************************************)
PairRunning == call.op = "kills"

\* what kill signals for the entry when no other call is running
SignaledAlone(entry) ==
    The({ UNION {k.ops[i].pids : i \in {j \in DOMAIN k.ops : k.ops[j].op = "kill"}}
          : k \in {kill(entry, NoFailure, NoAnswer)} })

C24_CallsShareNoSets ==
    PairRunning =>
        \A c \in Callers :
            /\ call.run[c].at \notin {"search", "done"} =>
                   call.run[c].pids = The(SafeCallOf(call.run[c].entry)).pids
            /\ call.run[c].at \in {"signal", "done"} =>
                   call.run[c].allPids =
                       ((call.run[c].pids \ call.run[c].ownPids)
                           \cup UNION {DescendantsOf(p) :
                                          p \in call.run[c].pids \ call.run[c].ownPids})
                       \ call.run[c].ownPids
            /\ call.run[c].at = "done" =>
                   call.run[c].signaled = SignaledAlone(call.run[c].entry)

\* both calls have signaled, different processes, the second having started
\* its search while the first stood between two of its awaits
C24_Witness ==
    /\ PairRunning
    /\ pc = "done"
    /\ call.run[1].signaled # {}
    /\ call.run[2].signaled # {}
    /\ call.run[1].signaled # call.run[2].signaled
    /\ \E i, j, k \in DOMAIN out.log :
          i < j /\ j < k /\ out.log[i][1] = 1 /\ out.log[j][1] = 2 /\ out.log[k][1] = 1

(***************************************************************************)
(* C25.  parsePort gives the port written in the URL when there is one,    *)
(* else 443 for https, else 80 for http, else nothing; a malformed URL     *)
(* gives nothing and raises nothing.  So when the pattern strategy has     *)
(* signaled nothing, the port strategy looks up exactly that port (unless  *)
(* it is 0, 80 or 443), and with no port it does nothing: kill returns     *)
(* false.                                                                  *)
(***************************************************************************)
C25_PortStrategyUsesWrittenPort ==
    (KillDone /\ PatternKills = {}) =>
        /\ out.ret # "threw"
        /\ WrittenPort(call.entry.url) \notin {None, 0, 80, 443} =>
               /\ PortEvents # {}
               /\ \A i \in PortEvents : out.ops[i].port = WrittenPort(call.entry.url)
        /\ WrittenPort(call.entry.url) = None =>
               (PortEvents = {} /\ Signaled = {} /\ out.ret = "false")

(***************************************************************************)
(* C26.  The id of an entry is stable: whatever the store does next (add,  *)
(* remove, persist, the reload that follows a change of the                *)
(* configuration), an id held for an entry that is still in the store      *)
(* resolves through getById to that entry.                                 *)
(***************************************************************************)
C26_IdsAreStable ==
    [][\A i \in DOMAIN servers :
          StatusIn(servers', servers[i].name) # "undefined"
              => \E e \in getById(servers', servers[i].id) : e.name = servers[i].name]_vars

(***************************************************************************)
(* C27.  No pattern given to the process-table search is empty or made of  *)
(* white space only, for any start command that is not the empty string.   *)
(***************************************************************************)
C27_NoBlankPatternSearched ==
    (KillDone /\ call.entry.startCommand # <<>>) =>
        \A i \in PgrepEvents : Trim(out.ops[i].pattern) # <<>>

\* C28: after any sequence of start(), restart() and dispose() calls at most one
\* polling timer is set, and after dispose() none is set
C28_AtMostOneTimer ==
    /\ Cardinality(timers) <= 1
    /\ call.op = "dispose" => timers = {}

\* the grouped tree is rendered with every group node expanded
GroupedTreeShown ==
    /\ out.ret = "tree"
    /\ out.roots # <<>>
    /\ \A i \in DOMAIN out.roots :
          "type" \in DOMAIN out.roots[i] /\ out.roots[i].label \in DOMAIN out.children

\* the group nodes under which a server is listed
NodesListing(server) ==
    { i \in DOMAIN out.roots :
        \E k \in DOMAIN out.children[out.roots[i].label] :
            out.children[out.roots[i].label][k].id = server.id }

\* C29: in the grouped tree every stored server is listed under exactly one group
\* node, for every assignment of labels, the label "General" included
C29_GroupsPartitionTheStore ==
    GroupedTreeShown =>
        \A i \in DOMAIN servers : Cardinality(NodesListing(servers[i])) = 1

\* C30: one Up-to-Down transition of a server produces at most one "is down" warning,
\* however the checkAll runs overlap: since the server last stopped answering at most
\* one warning about it was shown
C30_OneWarningPerDownTransition ==
    \A name \in DOMAIN shown : shown[name] <= 1

====
